---- MODULE Spec2Model ----
(***************************************************************************)
(* A model of JsonStore (src/src/logic/store.ts): the path-addressed JSON   *)
(* document store with its bounded undo history and listener list.          *)
(*                                                                          *)
(* JavaScript values are tagged records.  A string is a sequence of         *)
(* one-character strings, so that key synthesis, trimming, quoting and the  *)
(* textual prefix test of moveNode are computed character by character.     *)
(* An object is the sequence of its own properties in the order             *)
(* Object.keys reports them: array-index keys ascending first, then the     *)
(* other keys in insertion order.  Property names inherited from            *)
(* Object.prototype and Array.prototype are outside the key alphabet.       *)
(***************************************************************************)
EXTENDS Integers, Sequences, FiniteSets, TLC

\* ------------------------------------------------------------------------
\* JavaScript values
\* ------------------------------------------------------------------------

Null == [t |-> "null"]

Undefined == [t |-> "undefined"]

NaN == [t |-> "nan"]

Infinity == [t |-> "infinity", v |-> 1]

NegInfinity == [t |-> "infinity", v |-> -1]

\* the completion of an expression that raises (TypeError, SyntaxError, Error)
Throw == [t |-> "throw"]

Str(s) == [t |-> "string", v |-> s]

Num(n) == [t |-> "number", v |-> n]

Bool(b) == [t |-> "boolean", v |-> b]

Arr(xs) == [t |-> "array", xs |-> xs]

\* ms: sequence of <<key, value>>, key a character sequence
Obj(ms) == [t |-> "object", xs |-> ms]

IsArray(x) == x.t = "array"

IsObject(x) == x.t = "object"

\* typeof x === 'object' && x !== null, for the values of the model
IsContainer(x) == x.t \in {"array", "object"}

\* !x  (ToBoolean(x) is false)
Falsy(x) ==
    \/ x.t \in {"null", "undefined", "nan"}
    \/ x.t = "number" /\ x.v = 0
    \/ x.t = "string" /\ x.v = <<>>
    \/ x.t = "boolean" /\ x.v = FALSE

\* ------------------------------------------------------------------------
\* Strings
\* ------------------------------------------------------------------------

DigitChars == <<"0", "1", "2", "3", "4", "5", "6", "7", "8", "9">>

IsDigit(c) == \E i \in 1..10 : DigitChars[i] = c

DigitVal(c) == (CHOOSE i \in 1..10 : DigitChars[i] = c) - 1

RECURSIVE NatChars(_)
NatChars(n) ==
    IF n < 10 THEN <<DigitChars[n + 1]>>
    ELSE NatChars(n \div 10) \o <<DigitChars[(n % 10) + 1]>>

RECURSIVE DigitsVal(_)
DigitsVal(s) ==
    IF s = <<>> THEN 0
    ELSE 10 * DigitsVal(SubSeq(s, 1, Len(s) - 1)) + DigitVal(s[Len(s)])

AllDigits(s) == s # <<>> /\ \A i \in 1..Len(s) : IsDigit(s[i])

\* a canonical array index: the decimal text of a natural number
IsIndexKey(s) == AllDigits(s) /\ (Len(s) = 1 \/ s[1] # "0")

StartsWith(s, p) == Len(p) <= Len(s) /\ SubSeq(s, 1, Len(p)) = p

EndsWith(s, p) == Len(p) <= Len(s) /\ SubSeq(s, Len(s) - Len(p) + 1, Len(s)) = p

RECURSIVE TrimLeft(_)
TrimLeft(s) == IF s # <<>> /\ s[1] = " " THEN TrimLeft(Tail(s)) ELSE s

RECURSIVE TrimRight(_)
TrimRight(s) ==
    IF s # <<>> /\ s[Len(s)] = " " THEN TrimRight(SubSeq(s, 1, Len(s) - 1)) ELSE s

\* String.prototype.trim, for the whitespace of the input alphabet (space)
Trim(s) == TrimRight(TrimLeft(s))

InfinityChars == <<"I", "n", "f", "i", "n", "i", "t", "y">>

\* Number(s) for a string s: whitespace is trimmed, the empty string is 0,
\* an optionally signed run of digits is that integer, optionally signed
\* "Infinity" is infinite and anything else is NaN.  Fractions, exponents and
\* radix prefixes are outside the input alphabet.  -0 is identified with 0.
NumberOfChars(s) ==
    LET u == Trim(s)
        neg == u # <<>> /\ u[1] = "-"
        signed == u # <<>> /\ u[1] \in {"-", "+"}
        body == IF signed THEN Tail(u) ELSE u
    IN  IF u = <<>> THEN Num(0)
        ELSE IF AllDigits(body) THEN Num(IF neg THEN 0 - DigitsVal(body) ELSE DigitsVal(body))
        ELSE IF body = InfinityChars THEN (IF neg THEN NegInfinity ELSE Infinity)
        ELSE NaN

\* String(x) for a number or a string (template literals, String(fromKey))
ToStringChars(x) ==
    CASE x.t = "string" -> x.v
      [] x.t = "number" -> IF x.v < 0 THEN <<"-">> \o NatChars(0 - x.v) ELSE NatChars(x.v)
      [] x.t = "infinity" -> IF x.v < 0 THEN <<"-">> \o InfinityChars ELSE InfinityChars
      [] x.t = "undefined" -> <<"u", "n", "d", "e", "f", "i", "n", "e", "d">>
      [] x.t = "null" -> <<"n", "u", "l", "l">>
      [] x.t = "nan" -> <<"N", "a", "N">>
      [] OTHER -> <<>>

\* ToNumber(x) for a path segment or undefined
ToNumber(x) ==
    CASE x.t = "number" -> x
      [] x.t = "infinity" -> x
      [] x.t = "string" -> NumberOfChars(x.v)
      [] OTHER -> NaN

\* ToIntegerOrInfinity followed by the clamping of Array.prototype.splice:
\* the start index that splice(start, ...) uses on an array of length len
SpliceStart(x, len) ==
    LET n == ToNumber(x)
    IN  CASE n.t = "nan" -> 0
          [] n.t = "infinity" -> IF n.v < 0 THEN 0 ELSE len
          [] OTHER -> IF n.v < 0 THEN (IF len + n.v < 0 THEN 0 ELSE len + n.v)
                      ELSE IF n.v > len THEN len ELSE n.v

\* a < b on path segments (the comparison fromIdx < toIdx of moveNode): a
\* number against a number, a numeric string or undefined
LessThan(a, b) ==
    LET x == ToNumber(a)
        y == ToNumber(b)
    IN  /\ x.t # "nan"
        /\ y.t # "nan"
        /\ CASE x.t = "number" /\ y.t = "number" -> x.v < y.v
             [] x.t = "number" /\ y.t = "infinity" -> y.v > 0
             [] x.t = "infinity" /\ y.t = "number" -> x.v < 0
             [] OTHER -> x.v < y.v

\* ------------------------------------------------------------------------
\* Own properties of objects, arrays and strings
\* ------------------------------------------------------------------------

\* position of key k among the members ms, 0 when absent
MemberIndex(ms, k) ==
    IF \E i \in 1..Len(ms) : ms[i][1] = k
    THEN CHOOSE i \in 1..Len(ms) : ms[i][1] = k
    ELSE 0

\* the keys of an object from the last to the first
ObjectKeysReversed(o) == [i \in 1..Len(o.xs) |-> o.xs[Len(o.xs) + 1 - i][1]]

\* Object.keys(obj)
ObjectKeys(o) == [i \in 1..Len(o.xs) |-> o.xs[i][1]]

\* number of leading members whose key is an array index smaller than n
RECURSIVE IndexKeysBelow(_, _)
IndexKeysBelow(ms, n) ==
    IF ms # <<>> /\ IsIndexKey(ms[1][1]) /\ DigitsVal(ms[1][1]) < n
    THEN 1 + IndexKeysBelow(Tail(ms), n)
    ELSE 0

InsertAt(xs, i, x) == SubSeq(xs, 1, i) \o <<x>> \o SubSeq(xs, i + 1, Len(xs))

RemoveAt(xs, i) == SubSeq(xs, 1, i - 1) \o SubSeq(xs, i + 1, Len(xs))

\* obj[k] = v on the member list of an ordinary object: an existing key keeps
\* its place, a new array-index key is ordered among the index keys, any other
\* new key goes last (OrdinaryOwnPropertyKeys)
MembersSet(ms, k, v) ==
    LET i == MemberIndex(ms, k)
    IN  IF i # 0 THEN [ms EXCEPT ![i] = <<k, v>>]
        ELSE IF IsIndexKey(k) THEN InsertAt(ms, IndexKeysBelow(ms, DigitsVal(k)), <<k, v>>)
        ELSE Append(ms, <<k, v>>)

\* delete obj[k] on the member list
MembersDelete(ms, k) ==
    LET i == MemberIndex(ms, k)
    IN  IF i = 0 THEN ms ELSE RemoveAt(ms, i)

\* the array index a path segment denotes on an array or a string, -1 if none
IndexOf(seg) ==
    CASE seg.t = "number" -> IF seg.v >= 0 THEN seg.v ELSE -1
      [] seg.t = "string" -> IF IsIndexKey(seg.v) THEN DigitsVal(seg.v) ELSE -1
      [] OTHER -> -1

\* x.hasOwnProperty(k) for a key text k; Throw when x is null or undefined
HasOwnProperty(x, k) ==
    CASE x.t \in {"null", "undefined"} -> Throw
      [] x.t = "object" -> Bool(MemberIndex(x.xs, k) # 0)
      [] x.t = "array" ->
            Bool(IsIndexKey(k) /\ DigitsVal(k) < Len(x.xs)
                 /\ x.xs[DigitsVal(k) + 1] # Undefined)
      [] x.t = "string" -> Bool(IsIndexKey(k) /\ DigitsVal(k) < Len(x.v))
      [] OTHER -> Bool(FALSE)

\* x[seg]: Throw when x is null or undefined, Undefined when there is no
\* such property
GetProp(x, seg) ==
    CASE x.t \in {"null", "undefined"} -> Throw
      [] x.t = "object" ->
            LET i == MemberIndex(x.xs, ToStringChars(seg))
            IN  IF i = 0 THEN Undefined ELSE x.xs[i][2]
      [] x.t = "array" ->
            LET n == IndexOf(seg)
            IN  IF n >= 0 /\ n < Len(x.xs) THEN x.xs[n + 1] ELSE Undefined
      [] x.t = "string" ->
            LET n == IndexOf(seg)
            IN  IF n >= 0 /\ n < Len(x.v) THEN Str(<<x.v[n + 1]>>) ELSE Undefined
      [] OTHER -> Undefined

\* x[seg] = v in strict mode: the container after the assignment, Throw when
\* x is a primitive, null or undefined.  An array grows with holes
\* (Undefined) when the index is beyond its length; a property of an array
\* that is not an index is no element of it and is left out of the model.
SetProp(x, seg, v) ==
    CASE x.t = "object" -> Obj(MembersSet(x.xs, ToStringChars(seg), v))
      [] x.t = "array" ->
            LET n == IndexOf(seg)
            IN  IF n < 0 THEN x
                ELSE IF n < Len(x.xs) THEN Arr([x.xs EXCEPT ![n + 1] = v])
                ELSE Arr([i \in 1..(n + 1) |->
                            IF i <= Len(x.xs) THEN x.xs[i]
                            ELSE IF i = n + 1 THEN v ELSE Undefined])
      [] OTHER -> Throw

\* delete x[seg] in strict mode (x not an array): the value after the delete,
\* Throw when x is null or undefined or seg is a character of a string
DeleteProp(x, seg) ==
    CASE x.t \in {"null", "undefined"} -> Throw
      [] x.t = "object" -> Obj(MembersDelete(x.xs, ToStringChars(seg)))
      [] x.t = "string" ->
            IF IndexOf(seg) >= 0 /\ IndexOf(seg) < Len(x.v) THEN Throw ELSE x
      [] OTHER -> x

\* arr.splice(start): without a delete count everything from start on goes
SpliceRemoveRest(a, start) ==
    LET i == SpliceStart(start, Len(a.xs))
    IN  IF i < Len(a.xs) THEN Arr(SubSeq(a.xs, 1, i)) ELSE a

\* arr.splice(start, 1)
SpliceRemove(a, start) ==
    LET i == SpliceStart(start, Len(a.xs))
    IN  IF i < Len(a.xs) THEN Arr(RemoveAt(a.xs, i + 1)) ELSE a

\* arr.splice(start, 0, v)
SpliceInsert(a, start, v) == Arr(InsertAt(a.xs, SpliceStart(start, Len(a.xs)), v))

\* ------------------------------------------------------------------------
\* Paths
\* ------------------------------------------------------------------------

\* path.slice(0, -1)
ParentPath(path) == SubSeq(path, 1, Len(path) - 1)

\* path[path.length - 1]; undefined for the empty path
LastSeg(path) == IF path = <<>> THEN Undefined ELSE path[Len(path)]

\* JsonStore.getAt: descend one segment at a time.  Throw when a segment is
\* read from null or undefined, Undefined when the last read finds nothing.
RECURSIVE Descend(_, _)
Descend(target, path) ==
    IF path = <<>> THEN target
    ELSE LET next == GetProp(target, path[1])
         IN  IF next = Throw THEN Throw ELSE Descend(next, Tail(path))

getAt(d, path) == Descend(d, path)

\* the document after the container that getAt(d, path) returns has been
\* mutated in place into new (path resolves through containers only)
RECURSIVE ReplaceAt(_, _, _)
ReplaceAt(d, path, new) ==
    IF path = <<>> THEN new
    ELSE IF d.t = "object"
    THEN LET i == MemberIndex(d.xs, ToStringChars(path[1]))
         IN  Obj([d.xs EXCEPT ![i] = <<d.xs[i][1], ReplaceAt(d.xs[i][2], Tail(path), new)>>])
    ELSE LET n == IndexOf(path[1])
         IN  Arr([d.xs EXCEPT ![n + 1] = ReplaceAt(d.xs[n + 1], Tail(path), new)])

\* JSON text of a string: quotes and backslashes are escaped
RECURSIVE EscapeChars(_)
EscapeChars(s) ==
    IF s = <<>> THEN <<>>
    ELSE (IF s[1] \in {"\"", "\\"} THEN <<"\\", s[1]>> ELSE <<s[1]>>) \o EscapeChars(Tail(s))

\* JSON.stringify of one path segment
SegText(seg) ==
    CASE seg.t = "string" -> <<"\"">> \o EscapeChars(seg.v) \o <<"\"">>
      [] seg.t = "number" -> ToStringChars(seg)
      [] OTHER -> <<"n", "u", "l", "l">>

RECURSIVE SegTexts(_)
SegTexts(path) ==
    IF path = <<>> THEN <<>>
    ELSE IF Len(path) = 1 THEN SegText(path[1])
    ELSE SegText(path[1]) \o <<",">> \o SegTexts(Tail(path))

\* JSON.stringify(path), character by character
PathText(path) == <<"[">> \o SegTexts(path) \o <<"]">>

\* path.join('.')
RECURSIVE JoinDot(_)
JoinDot(path) ==
    IF path = <<>> THEN <<>>
    ELSE IF Len(path) = 1 THEN ToStringChars(path[1])
    ELSE ToStringChars(path[1]) \o <<".">> \o JoinDot(Tail(path))

\* ------------------------------------------------------------------------
\* JSON.stringify / JSON.parse of documents
\* ------------------------------------------------------------------------

\* what a JSON text can carry of a value: a non-finite number and an array
\* hole are written as null, an undefined member is left out
RECURSIVE JsonImage(_)
JsonImage(x) ==
    CASE x.t \in {"infinity", "nan", "undefined"} -> Null
      [] x.t = "array" -> Arr([i \in 1..Len(x.xs) |-> JsonImage(x.xs[i])])
      [] x.t = "object" ->
            LET kept == SelectSeq(x.xs, LAMBDA m : m[2].t # "undefined")
            IN  Obj([i \in 1..Len(kept) |-> <<kept[i][1], JsonImage(kept[i][2])>>])
      [] OTHER -> x

\* JSON.stringify(x): a text, or undefined when x is undefined.  A text is
\* represented by the JSON value it denotes.
JSONstringify(x) ==
    IF x.t = "undefined" THEN Undefined ELSE [t |-> "text", json |-> JsonImage(x)]

\* JSON.parse(s): the value a text denotes (its members are created in text
\* order, which is the order stringify wrote them in); Throw (SyntaxError)
\* when s is not a text
JSONparse(s) == IF s.t = "text" THEN s.json ELSE Throw

\* ------------------------------------------------------------------------
\* JsonStore: history, notification and the completions of a call
\* ------------------------------------------------------------------------

\* JsonStore.maxHistory
maxHistory == 50

\* the fields of a JsonStore instance
Store(d, h, ls) == [data |-> d, history |-> h, listeners |-> ls]

\* pushHistory without the shift of the oldest snapshot
pushHistoryUnbounded(s) ==
    IF s.data # Null
    THEN [s EXCEPT !.history = Append(s.history, JSONstringify(s.data))]
    ELSE s

\* JsonStore.pushHistory
pushHistory(s) ==
    IF s.data # Null
    THEN LET pushed == Append(s.history, JSONstringify(s.data))
         IN  [s EXCEPT !.history = IF Len(pushed) > maxHistory THEN Tail(pushed) ELSE pushed]
    ELSE s

\* JsonStore.get
get(s) == s.data

\* JsonStore.canUndo
canUndo(s) == Len(s.history) > 0

\* notify calling the listeners newest first
notifyReversed(s) ==
    [i \in 1..Len(s.listeners) |->
        [listener |-> s.listeners[Len(s.listeners) + 1 - i], data |-> s.data,
         history |-> s.history]]

\* JsonStore.notify: the listeners are called in the order of the list; every
\* listener of the application reads the store (main.ts: store.get()), and a
\* call is recorded with what the listener finds there
notify(s) ==
    [i \in 1..Len(s.listeners) |->
        [listener |-> s.listeners[i], data |-> s.data, history |-> s.history]]

\* a call that ran to its final notify()
Notified(s, ret) ==
    [store |-> s, status |-> "returned", ret |-> ret, notified |-> TRUE, calls |-> notify(s)]

\* a call that returned early, before any notify()
Returned(s, ret) ==
    [store |-> s, status |-> "returned", ret |-> ret, notified |-> FALSE, calls |-> <<>>]

\* a call that raised after it had emptied the store
RaisedEmptied(s) ==
    [store |-> [s EXCEPT !.data = Null], status |-> "threw", ret |-> Undefined,
     notified |-> FALSE, calls |-> <<>>]

\* a call that raised, leaving the store as s
Raised(s) ==
    [store |-> s, status |-> "threw", ret |-> Undefined, notified |-> FALSE, calls |-> <<>>]

\* a mutation that shows in the newest snapshot, as it would if the history
\* held the document itself and not its text
MutatedWithSnapshot(s, path, target, new) ==
    IF new = target THEN s
    ELSE LET d == ReplaceAt(s.data, path, new)
         IN  [s EXCEPT !.data = d,
                       !.history = IF s.history = <<>> THEN s.history
                                   ELSE [s.history EXCEPT ![Len(s.history)] = JSONstringify(d)]]

\* the store after the container target, found at path, was mutated into new
Mutated(s, path, target, new) ==
    IF new = target THEN s ELSE [s EXCEPT !.data = ReplaceAt(s.data, path, new)]

\* parentPath.length === 0 ? this.data : this.getAt(parentPath)
TargetOf(s, path) == IF path = <<>> THEN s.data ELSE getAt(s.data, path)

\* set taking null for "nothing to load" and keeping the document
setUnlessNull(s, value, saveHistory) ==
    LET s1 == IF saveHistory /\ s.data # Null THEN pushHistory(s) ELSE s
    IN  Notified([s1 EXCEPT !.data = IF value = Null THEN s.data ELSE value], Undefined)

\* JsonStore.set
set(s, value, saveHistory) ==
    LET s1 == IF saveHistory /\ s.data # Null THEN pushHistory(s) ELSE s
    IN  Notified([s1 EXCEPT !.data = value], Undefined)

\* undo taking the oldest snapshot instead of the newest
undoOldest(s) ==
    IF Len(s.history) = 0 THEN Returned(s, Bool(FALSE))
    ELSE LET prev == s.history[1]
         IN  Notified([s EXCEPT !.history = Tail(s.history),
                                !.data = JSONparse(prev)], Bool(TRUE))

\* JsonStore.undo
undo(s) ==
    IF Len(s.history) = 0 THEN Returned(s, Bool(FALSE))
    ELSE LET prev == s.history[Len(s.history)]
         IN  Notified([s EXCEPT !.history = SubSeq(s.history, 1, Len(s.history) - 1),
                                !.data = JSONparse(prev)], Bool(TRUE))

\* JsonStore.subscribe
subscribe(s, listener) == [s EXCEPT !.listeners = Append(s.listeners, listener)]

\* an unsubscribe that removes one registration of the listener, the oldest
unsubscribeOldest(s, listener) ==
    LET at == {i \in 1..Len(s.listeners) : s.listeners[i] = listener}
    IN  IF at = {} THEN s
        ELSE [s EXCEPT !.listeners =
                 RemoveAt(s.listeners, CHOOSE i \in at : \A j \in at : i <= j)]

\* the function subscribe returns
unsubscribe(s, listener) ==
    [s EXCEPT !.listeners = SelectSeq(s.listeners, LAMBDA l : l # listener)]

\* ------------------------------------------------------------------------
\* JsonStore: updateValue, renameKey, addNode, deleteNode
\* ------------------------------------------------------------------------

DoubleQuote == <<"\"">>

\* a normalization that matches the rules against the untrimmed text
NormalizeUpdateUntrimmed(value) ==
    IF value.t # "string" THEN value
    ELSE LET strVal == value.v
             num == NumberOfChars(strVal)
         IN  IF StartsWith(strVal, DoubleQuote) /\ EndsWith(strVal, DoubleQuote)
             THEN Str(SubSeq(strVal, 2, Len(strVal) - 1))
             ELSE IF strVal = <<"t", "r", "u", "e">> THEN Bool(TRUE)
             ELSE IF strVal = <<"f", "a", "l", "s", "e">> THEN Bool(FALSE)
             ELSE IF strVal = <<"n", "u", "l", "l">> THEN Null
             ELSE IF num.t # "nan" /\ Trim(strVal) # <<>> THEN num
             ELSE value

\* the type normalization of updateValue
NormalizeUpdate(value) ==
    IF value.t # "string" THEN value
    ELSE LET strVal == Trim(value.v)
             num == NumberOfChars(strVal)
         IN  IF StartsWith(strVal, DoubleQuote) /\ EndsWith(strVal, DoubleQuote)
             THEN Str(SubSeq(strVal, 2, Len(strVal) - 1))
             ELSE IF strVal = <<"t", "r", "u", "e">> THEN Bool(TRUE)
             ELSE IF strVal = <<"f", "a", "l", "s", "e">> THEN Bool(FALSE)
             ELSE IF strVal = <<"n", "u", "l", "l">> THEN Null
             ELSE IF num.t # "nan" /\ strVal # <<>> THEN num
             ELSE value

\* the type normalization of addNode
NormalizeAdd(value) ==
    IF value.t # "string" THEN value
    ELSE LET strVal == Trim(value.v)
             num == NumberOfChars(strVal)
         IN  IF StartsWith(strVal, DoubleQuote) /\ EndsWith(strVal, DoubleQuote)
             THEN Str(SubSeq(strVal, 2, Len(strVal) - 1))
             ELSE IF strVal = <<"t", "r", "u", "e">> THEN Bool(TRUE)
             ELSE IF strVal = <<"f", "a", "l", "s", "e">> THEN Bool(FALSE)
             ELSE IF strVal = <<"n", "u", "l", "l">> THEN Null
             ELSE IF num.t # "nan" /\ strVal # <<>> THEN num
             ELSE value

\* JsonStore.updateValue
updateValue(s, path, value) ==
    IF Falsy(s.data) THEN Returned(s, Undefined)
    ELSE LET s1 == pushHistory(s)
             parentPath == ParentPath(path)
             key == LastSeg(path)
             target == TargetOf(s1, parentPath)
             new == SetProp(target, key, NormalizeUpdate(value))
         IN  IF target = Throw \/ new = Throw THEN Raised(s1)
             ELSE Notified(Mutated(s1, parentPath, target, new), Undefined)

\* the order-preserving rebuild of renameKey: the members are deleted and
\* assigned again key by key, newKey in the place of oldKey
RECURSIVE RenameRebuild(_, _, _, _, _)
RenameRebuild(keys, temp, oldKey, newKey, acc) ==
    IF keys = <<>> THEN acc
    ELSE LET k == keys[1]
             next == IF Str(k) = oldKey
                     THEN MembersSet(acc, newKey, GetProp(Obj(temp), oldKey))
                     ELSE MembersSet(acc, k, GetProp(Obj(temp), Str(k)))
         IN  RenameRebuild(Tail(keys), temp, oldKey, newKey, next)

\* renameKey rejecting every key the parent already has, the old key included
renameKeyAnyPresent(s, path, newKey) ==
    IF Falsy(s.data) THEN Returned(s, Undefined)
    ELSE LET s1 == pushHistory(s)
             parentPath == ParentPath(path)
             oldKey == LastSeg(path)
             target == TargetOf(s1, parentPath)
             has == HasOwnProperty(target, newKey)
         IN  IF target = Throw THEN Raised(s1)
             ELSE IF IsArray(target) THEN Raised(s1)
             ELSE IF has = Throw THEN Raised(s1)
             ELSE IF has.v THEN Raised(s1)
             ELSE IF target.t = "string" /\ target.v # <<>> THEN Raised(s1)
             ELSE IF ~IsObject(target) THEN Notified(s1, Undefined)
             ELSE LET new == Obj(RenameRebuild(ObjectKeys(target), target.xs,
                                               oldKey, newKey, <<>>))
                  IN  Notified(Mutated(s1, parentPath, target, new), Undefined)

\* JsonStore.renameKey
renameKey(s, path, newKey) ==
    IF Falsy(s.data) THEN Returned(s, Undefined)
    ELSE LET s1 == pushHistory(s)
             parentPath == ParentPath(path)
             oldKey == LastSeg(path)
             target == TargetOf(s1, parentPath)
             has == HasOwnProperty(target, newKey)
         IN  IF target = Throw THEN Raised(s1)
             ELSE IF IsArray(target) THEN Raised(s1)
             ELSE IF has = Throw THEN Raised(s1)
             ELSE IF has.v /\ Str(newKey) # oldKey THEN Raised(s1)
             ELSE IF target.t = "string" /\ target.v # <<>> THEN Raised(s1)
             ELSE IF ~IsObject(target) THEN Notified(s1, Undefined)
             ELSE LET new == Obj(RenameRebuild(ObjectKeys(target), target.xs,
                                               oldKey, newKey, <<>>))
                  IN  Notified(Mutated(s1, parentPath, target, new), Undefined)

\* JsonStore.addNode
addNode(s, path, key, value) ==
    LET s1 == pushHistory(s)
        target == TargetOf(s1, path)
        finalVal == NormalizeAdd(value)
        has == HasOwnProperty(target, key)
        new == IF IsArray(target) THEN Arr(Append(target.xs, finalVal))
               ELSE SetProp(target, Str(key), finalVal)
    IN  IF target = Throw THEN Raised(s1)
        ELSE IF IsArray(target) THEN Notified(Mutated(s1, path, target, new), Undefined)
        ELSE IF key = <<>> THEN Raised(s1)
        ELSE IF has = Throw THEN Raised(s1)
        ELSE IF has.v THEN Raised(s1)
        ELSE IF new = Throw THEN Raised(s1)
        ELSE Notified(Mutated(s1, path, target, new), Undefined)

\* deleteNode notifying before it rejects the root
deleteNodeNotifyFirst(s, path) ==
    IF path = <<>> THEN [Raised(s) EXCEPT !.calls = notify(s)]
    ELSE LET s1 == pushHistory(s)
             parentPath == ParentPath(path)
             key == LastSeg(path)
             parent == TargetOf(s1, parentPath)
             new == IF IsArray(parent) THEN SpliceRemove(parent, key)
                    ELSE DeleteProp(parent, key)
         IN  IF parent = Throw \/ new = Throw THEN Raised(s1)
             ELSE Notified(Mutated(s1, parentPath, parent, new), Undefined)

\* JsonStore.deleteNode
deleteNode(s, path) ==
    IF path = <<>> THEN Raised(s)
    ELSE LET s1 == pushHistory(s)
             parentPath == ParentPath(path)
             key == LastSeg(path)
             parent == TargetOf(s1, parentPath)
             new == IF IsArray(parent) THEN SpliceRemove(parent, key)
                    ELSE DeleteProp(parent, key)
         IN  IF parent = Throw \/ new = Throw THEN Raised(s1)
             ELSE Notified(Mutated(s1, parentPath, parent, new), Undefined)

\* ------------------------------------------------------------------------
\* JsonStore: duplicateNode, moveNode
\* ------------------------------------------------------------------------

\* the while loop of duplicateNode: base_copy, base_copy_1, base_copy_2, ...
RECURSIVE CopyKeyFrom(_, _, _, _)
CopyKeyFrom(obj, base, newKey, counter) ==
    IF HasOwnProperty(obj, newKey).v
    THEN CopyKeyFrom(obj, base, base \o <<"_", "c", "o", "p", "y", "_">> \o NatChars(counter),
                     counter + 1)
    ELSE newKey

CopyKey(obj, oldKey) ==
    LET base == ToStringChars(oldKey)
    IN  CopyKeyFrom(obj, base, base \o <<"_", "c", "o", "p", "y">>, 1)

\* the rebuild of duplicateNode: every member is assigned again in order and
\* newKey is assigned right after oldKey
RECURSIVE DuplicateRebuild(_, _, _, _, _, _)
DuplicateRebuild(keys, temp, oldKey, newKey, clonedValue, acc) ==
    IF keys = <<>> THEN acc
    ELSE LET k == keys[1]
             kept == MembersSet(acc, k, GetProp(Obj(temp), Str(k)))
             next == IF Str(k) = oldKey THEN MembersSet(kept, newKey, clonedValue) ELSE kept
         IN  DuplicateRebuild(Tail(keys), temp, oldKey, newKey, clonedValue, next)

\* (oldKey as number) + 1: a sum for a number, a concatenation for a string
PlusOne(seg) ==
    IF seg.t = "number" THEN Num(seg.v + 1) ELSE Str(ToStringChars(seg) \o <<"1">>)

\* duplicateNode saving a snapshot before it looks at the path
duplicateNodePushFirst(s, path) ==
    IF path = <<>> THEN Returned(pushHistory(s), Undefined)
    ELSE LET s1 == pushHistory(s)
             parentPath == ParentPath(path)
             oldKey == LastSeg(path)
             parent == TargetOf(s1, parentPath)
             originalValue == getAt(s1.data, path)
             clonedValue == JSONparse(JSONstringify(originalValue))
         IN  IF parent = Throw \/ originalValue = Throw \/ clonedValue = Throw THEN Raised(s1)
             ELSE IF IsArray(parent)
             THEN Notified(Mutated(s1, parentPath, parent,
                                   SpliceInsert(parent, PlusOne(oldKey), clonedValue)), Undefined)
             ELSE IF ~IsObject(parent) THEN Raised(s1)
             ELSE LET newKey == CopyKey(parent, oldKey)
                      new == Obj(DuplicateRebuild(ObjectKeys(parent), parent.xs, oldKey,
                                                  newKey, clonedValue, <<>>))
                  IN  Notified(Mutated(s1, parentPath, parent, new), Undefined)

\* JsonStore.duplicateNode
duplicateNode(s, path) ==
    IF path = <<>> THEN Returned(s, Undefined)
    ELSE LET s1 == pushHistory(s)
             parentPath == ParentPath(path)
             oldKey == LastSeg(path)
             parent == TargetOf(s1, parentPath)
             originalValue == getAt(s1.data, path)
             clonedValue == JSONparse(JSONstringify(originalValue))
         IN  IF parent = Throw \/ originalValue = Throw \/ clonedValue = Throw THEN Raised(s1)
             ELSE IF IsArray(parent)
             THEN Notified(Mutated(s1, parentPath, parent,
                                   SpliceInsert(parent, PlusOne(oldKey), clonedValue)), Undefined)
             ELSE IF ~IsObject(parent) THEN Raised(s1)
             ELSE LET newKey == CopyKey(parent, oldKey)
                      new == Obj(DuplicateRebuild(ObjectKeys(parent), parent.xs, oldKey,
                                                  newKey, clonedValue, <<>>))
                  IN  Notified(Mutated(s1, parentPath, parent, new), Undefined)

\* the while loops of moveNode: base, base_1, base_2, ... until the key is
\* free or, for before/after, equal to the target key
RECURSIVE MoveKeyFrom(_, _, _, _, _)
MoveKeyFrom(obj, base, newKey, counter, stopKey) ==
    IF HasOwnProperty(obj, newKey).v /\ Str(newKey) # stopKey
    THEN MoveKeyFrom(obj, base, base \o <<"_">> \o NatChars(counter), counter + 1, stopKey)
    ELSE newKey

\* the rebuild of moveNode before/after an object member
RECURSIVE MoveRebuild(_, _, _, _, _, _, _)
MoveRebuild(keys, temp, targetKey, newKey, value, position, acc) ==
    IF keys = <<>> THEN acc
    ELSE LET k == keys[1]
             pre == IF position = "before" /\ Str(k) = targetKey
                    THEN MembersSet(acc, newKey, value) ELSE acc
             mid == MembersSet(pre, k, GetProp(Obj(temp), Str(k)))
             post == IF position = "after" /\ Str(k) = targetKey
                     THEN MembersSet(mid, newKey, value) ELSE mid
         IN  MoveRebuild(Tail(keys), temp, targetKey, newKey, value, position, post)

\* moveNode's descendant test on the JSON texts of the two paths
IsDescendantText(fromPath, toPath) ==
    LET fromText == PathText(fromPath)
    IN  /\ StartsWith(PathText(toPath), SubSeq(fromText, 1, Len(fromText) - 1))
        /\ Len(toPath) > Len(fromPath)

\* step 2 of moveNode: the destination path after the source left its array
AdjustedToPath(fromParent, fromPath, toPath) ==
    LET fromKey == LastSeg(fromPath)
        toIdx == LastSeg(toPath)
    IN  IF /\ IsArray(fromParent)
           /\ JoinDot(ParentPath(fromPath)) = JoinDot(ParentPath(toPath))
           /\ LessThan(fromKey, toIdx)
        THEN LET n == ToNumber(toIdx)
             IN  [toPath EXCEPT ![Len(toPath)] = IF n.t = "number" THEN Num(n.v - 1) ELSE n]
        ELSE toPath

\* insertIdx++ on the target key
Incremented(seg) ==
    LET n == ToNumber(seg)
    IN  IF n.t = "number" THEN Num(n.v + 1) ELSE n

\* step 3 of moveNode, position 'inside'
MoveInside(s, adjustedToPath, fromKey, value) ==
    LET target == getAt(s.data, adjustedToPath)
    IN  IF target = Throw THEN Raised(s)
        ELSE IF IsArray(target)
        THEN Notified(Mutated(s, adjustedToPath, target, Arr(Append(target.xs, value))),
                      Undefined)
        ELSE IF IsObject(target)
        THEN LET base == ToStringChars(fromKey)
                 newKey == MoveKeyFrom(target, base, base, 1, Undefined)
             IN  Notified(Mutated(s, adjustedToPath, target,
                                  SetProp(target, Str(newKey), value)), Undefined)
        ELSE Notified(s, Undefined)

\* step 3 of moveNode, position 'before' or 'after'
MoveBeside(s, adjustedToPath, fromKey, value, position) ==
    LET targetParentPath == ParentPath(adjustedToPath)
        targetKey == LastSeg(adjustedToPath)
        targetParent == TargetOf(s, targetParentPath)
    IN  IF targetParent = Throw THEN Raised(s)
        ELSE IF IsArray(targetParent)
        THEN LET insertIdx == IF position = "after" THEN Incremented(targetKey) ELSE targetKey
             IN  Notified(Mutated(s, targetParentPath, targetParent,
                                  SpliceInsert(targetParent, insertIdx, value)), Undefined)
        ELSE IF targetParent.t \in {"null", "undefined"} THEN Raised(s)
        ELSE IF targetParent.t = "string" /\ targetParent.v # <<>> THEN Raised(s)
        ELSE IF ~IsObject(targetParent) THEN Notified(s, Undefined)
        ELSE LET base == ToStringChars(fromKey)
                 newKey == MoveKeyFrom(targetParent, base, base, 1, targetKey)
                 new == Obj(MoveRebuild(ObjectKeys(targetParent), targetParent.xs, targetKey,
                                        newKey, value, position, <<>>))
             IN  Notified(Mutated(s, targetParentPath, targetParent, new), Undefined)

\* JsonStore.moveNode
moveNode(s, fromPath, toPath, position) ==
    IF fromPath = <<>> THEN Returned(s, Undefined)
    ELSE IF IsDescendantText(fromPath, toPath) THEN Returned(s, Undefined)
    ELSE LET source == getAt(s.data, fromPath)
             value == IF source = Throw THEN Throw ELSE JSONparse(JSONstringify(source))
             s1 == pushHistory(s)
             fromParentPath == ParentPath(fromPath)
             fromKey == LastSeg(fromPath)
             fromParent == TargetOf(s1, fromParentPath)
             removed == IF IsArray(fromParent) THEN SpliceRemove(fromParent, fromKey)
                        ELSE DeleteProp(fromParent, fromKey)
             s2 == Mutated(s1, fromParentPath, fromParent, removed)
             adjustedToPath == AdjustedToPath(fromParent, fromPath, toPath)
         IN  IF value = Throw THEN Raised(s)
             ELSE IF removed = Throw THEN Raised(s1)
             ELSE IF position = "inside" THEN MoveInside(s2, adjustedToPath, fromKey, value)
             ELSE MoveBeside(s2, adjustedToPath, fromKey, value, position)

\* ------------------------------------------------------------------------
\* The store as a state machine
\* ------------------------------------------------------------------------

VARIABLES
    data,       \* JsonStore.data; Null while no document is loaded
    history,    \* JsonStore.history, oldest snapshot first
    listeners,  \* JsonStore.listeners, in registration order
    last,       \* the last call: operation, arguments and completion
    calls,      \* the listener invocations made during the last call
    pre,        \* the document before the last call
    trail,      \* the documents before the recorded mutations not yet undone
    dropped,    \* the trail has lost an entry older than maxHistory mutations
    tainted,    \* a call raised, cleared the store or bypassed the history
    steps       \* number of budgeted calls made

vars == <<data, history, listeners, last, calls, pre, trail, dropped, tainted, steps>>

\* the store of the current state
Cur == Store(data, history, listeners)

NoArgs ==
    [path |-> <<>>, to |-> <<>>, key |-> <<>>, value |-> Undefined,
     position |-> "", saveHistory |-> TRUE, listener |-> ""]

MutatingOps == {"set", "updateValue", "renameKey", "addNode", "deleteNode",
                "duplicateNode", "moveNode"}

\* the trail with one more document, holding the maxHistory most recent
TrailPush(tr, d) ==
    IF Len(tr) = maxHistory THEN Append(Tail(tr), d) ELSE Append(tr, d)

\* the bookkeeping of one call op(args) that completed as r
Call(op, args, r, cost) ==
    LET recorded == r.notified /\ op \in MutatingOps /\ args.saveHistory
        fresh == data = Null /\ trail = <<>> /\ history = <<>>
    IN  /\ data' = r.store.data
        /\ history' = r.store.history
        /\ listeners' = r.store.listeners
        /\ last' = [op |-> op, args |-> args, status |-> r.status, ret |-> r.ret,
                    notified |-> r.notified]
        /\ calls' = r.calls
        /\ pre' = data
        /\ trail' = IF op = "undo"
                    THEN (IF r.ret = Bool(TRUE) /\ trail # <<>>
                          THEN SubSeq(trail, 1, Len(trail) - 1) ELSE trail)
                    ELSE IF recorded /\ ~fresh THEN TrailPush(trail, data)
                    ELSE trail
        /\ dropped' = (dropped \/ (op # "undo" /\ recorded /\ ~fresh /\ Len(trail) = maxHistory))
        /\ tainted' = (\/ tainted
                       \/ r.status = "threw"
                       \/ op \in MutatingOps /\ r.notified /\ ~args.saveHistory /\ ~fresh
                       \/ op \in MutatingOps /\ r.notified /\ data = Null /\ ~fresh)
        /\ steps' = steps + cost

\* new JsonStore(): no document, no history, no listener
Init ==
    /\ data = Null
    /\ history = <<>>
    /\ listeners = <<>>
    /\ last = [op |-> "new", args |-> NoArgs, status |-> "returned", ret |-> Undefined,
               notified |-> FALSE]
    /\ calls = <<>>
    /\ pre = Null
    /\ trail = <<>>
    /\ dropped = FALSE
    /\ tainted = FALSE
    /\ steps = 0

\* store.set(value, saveHistory)
Set(value, saveHistory) ==
    Call("set", [NoArgs EXCEPT !.value = value, !.saveHistory = saveHistory],
         set(Cur, value, saveHistory), 1)

\* an undo that installs the newest snapshot and leaves it in the history
UndoKeepingSnapshot ==
    TRUE /\ Call("undo", NoArgs, [undo(Cur) EXCEPT !.store.history = history], 0)

\* store.undo()
Undo == TRUE /\ Call("undo", NoArgs, undo(Cur), 0)

\* store.updateValue(path, value)
UpdateValue(path, value) ==
    /\ ~(IsArray(TargetOf(Cur, ParentPath(path))) /\ IndexOf(LastSeg(path)) < 0)
    /\ Call("updateValue", [NoArgs EXCEPT !.path = path, !.value = value],
            updateValue(Cur, path, value), 1)

\* store.renameKey(path, newKey)
RenameKey(path, newKey) ==
    Call("renameKey", [NoArgs EXCEPT !.path = path, !.key = newKey],
         renameKey(Cur, path, newKey), 1)

\* store.addNode(path, key, value)
AddNode(path, key, value, cost) ==
    Call("addNode", [NoArgs EXCEPT !.path = path, !.key = key, !.value = value],
         addNode(Cur, path, key, value), cost)

\* store.deleteNode(path)
DeleteNode(path, cost) ==
    Call("deleteNode", [NoArgs EXCEPT !.path = path], deleteNode(Cur, path), cost)

\* store.duplicateNode(path)
DuplicateNode(path) ==
    Call("duplicateNode", [NoArgs EXCEPT !.path = path], duplicateNode(Cur, path), 1)

\* store.moveNode(fromPath, toPath, position)
MoveNode(fromPath, toPath, position) ==
    Call("moveNode", [NoArgs EXCEPT !.path = fromPath, !.to = toPath, !.position = position],
         moveNode(Cur, fromPath, toPath, position), 1)

\* store.get()
Get == Call("get", NoArgs, Returned(Cur, get(Cur)), 1)

\* store.getAt(path): the value found, or the TypeError of a read from null
\* or undefined
GetAt(path) ==
    Call("getAt", [NoArgs EXCEPT !.path = path],
         IF getAt(get(Cur), path) = Throw THEN Raised(Cur)
         ELSE Returned(Cur, getAt(get(Cur), path)), 1)

\* ------------------------------------------------------------------------
\* Spec: an editing session on small documents
\* ------------------------------------------------------------------------

\* number of budgeted calls in a session (undo is not budgeted: it is bounded
\* by the history it consumes)
MaxCalls == 3

KeyA == Str(<<"a">>)

KeyB == Str(<<"b">>)

KeyC == Str(<<"c">>)

KeyD == Str(<<"d">>)

Key0 == Str(<<"0">>)

Key1 == Str(<<"1">>)

Key2 == Str(<<"2">>)

\* {"a":1,"b":[1,2]}
DocAB == Obj(<< <<KeyA.v, Num(1)>>, <<KeyB.v, Arr(<<Num(1), Num(2)>>)>> >>)

\* ["x",{"a":1},[2]]
DocList == Arr(<<Str(<<"x">>), Obj(<< <<KeyA.v, Num(1)>> >>), Arr(<<Num(2)>>)>>)

\* {"1":{"a":2},"2":"y","a":1}: a document whose text has integer-like keys,
\* in the order JSON.parse creates them
DocKeys ==
    Obj(<< <<Key1.v, Obj(<< <<KeyA.v, Num(2)>> >>)>>, <<Key2.v, Str(<<"y">>)>>,
           <<KeyA.v, Num(1)>> >>)

SetValues == {DocAB, DocList, Null}

UpdateArgs ==
    { <<<<KeyA>>, Str(InfinityChars)>>,
      <<<<KeyB, Num(0)>>, Str(<<"7">>)>>,
      <<<<Num(0)>>, Str(<<"t", "r", "u", "e">>)>> }

UpdateMore ==
    { <<<<Num(0)>>, Str(InfinityChars)>>,
      <<<<KeyA>>, Str(<<"\"", "4", "2", "\"">>)>>,
      <<<<KeyA>>, Str(<<"\"">>)>>,
      <<<<KeyA>>, Str(<<" ", "f", "a", "l", "s", "e", " ">>)>>,
      <<<<KeyA>>, Str(<<"n", "u", "l", "l">>)>>,
      <<<<KeyA>>, Str(<<"-", "1", "2">>)>>,
      <<<<KeyA>>, Str(<<" ", "h", "i">>)>>,
      <<<<KeyA>>, Str(<<>>)>>,
      <<<<KeyA>>, Num(5)>> }

RenameArgs ==
    { <<<<KeyA>>, KeyB.v>>,
      <<<<KeyA>>, KeyC.v>>,
      <<<<KeyB, Num(0)>>, KeyC.v>> }

RenameMore ==
    { <<<<KeyA>>, KeyA.v>>,
      <<<<KeyB>>, Key0.v>>,
      <<<<Key2>>, KeyB.v>>,
      <<<<Num(1), KeyA>>, KeyB.v>> }

AddArgs ==
    { <<<<>>, KeyC.v, Str(<<"3">>)>>,
      <<<<>>, KeyA.v, Str(<<"3">>)>>,
      <<<<>>, <<>>, Str(<<"3">>)>>,
      <<<<KeyB>>, <<>>, Str(<<"3">>)>> }

AddMore ==
    { <<<<>>, Key0.v, Str(<<"3">>)>>,
      <<<<Num(2)>>, KeyA.v, Str(<<"\"", "3", "\"">>)>>,
      <<<<Num(1)>>, KeyB.v, Str(<<"x">>)>>,
      <<<<KeyB>>, <<>>, Str(<<" ", "t", "r", "u", "e">>)>>,
      <<<<>>, KeyD.v, Str(<<"\"">>)>>,
      <<<<>>, KeyD.v, Obj(<<>>)>> }

DeletePaths == { <<>>, <<KeyA>>, <<KeyB, Num(0)>>, <<Num(1)>> }

DeleteMore == { <<Key2>>, <<Num(1), KeyA>>, <<Num(0)>> }

DuplicatePaths == { <<>>, <<KeyA>>, <<KeyB, Num(0)>>, <<Num(1)>> }

DuplicateMore == { <<Num(0)>>, <<Key1>>, <<Key1, KeyA>> }

\* the drops of one element of an array beside another element of it: every
\* pair of different indices of the list document, and the two of the array b
SiblingMoves ==
    {<<<<Num(p[1])>>, <<Num(p[2])>>, pos>> :
        p \in {q \in (0..2) \X (0..2) : q[1] # q[2]}, pos \in {"before", "after"}}
    \cup {<<<<KeyB, Num(0)>>, <<KeyB, Num(1)>>, "after">>,
           <<<<KeyB, Num(1)>>, <<KeyB, Num(0)>>, "before">>}

MoveArgs ==
    { <<<<>>, <<KeyA>>, "inside">>,
      <<<<>>, <<>>, "before">>,
      <<<<>>, <<Num(0)>>, "after">>,
      <<<<KeyA>>, <<KeyA>>, "before">>,
      <<<<KeyB>>, <<KeyB, Num(0)>>, "inside">>,
      <<<<KeyA>>, <<KeyB>>, "inside">>,
      <<<<KeyA>>, <<KeyB, Num(0)>>, "inside">>,
      <<<<KeyA>>, <<KeyC>>, "inside">>,
      <<<<KeyA>>, <<KeyC, KeyD>>, "inside">>,
      <<<<KeyB, Num(0)>>, <<KeyA>>, "before">>,
      <<<<Num(0)>>, <<Num(0)>>, "after">>,
      <<<<Num(0)>>, <<Num(2)>>, "after">>,
      <<<<Num(2)>>, <<Num(0)>>, "before">>,
      <<<<Num(1)>>, <<Num(1), KeyA>>, "after">> }

MoveMore ==
    { <<<<Key1, KeyA>>, <<KeyA>>, "after">>,
      <<<<Key1, KeyA>>, <<Key2>>, "before">>,
      <<<<KeyA>>, <<Key1>>, "inside">>,
      <<<<KeyA>>, <<KeyB>>, "after">>,
      <<<<KeyB, Num(0)>>, <<>>, "inside">>,
      <<<<Num(0)>>, <<Num(1), KeyA>>, "before">>,
      <<<<Num(0)>>, <<Num(2), Num(0)>>, "before">> }
    \cup SiblingMoves

Budget == steps < MaxCalls

\* the paths the detail panel and the context menu read, some of them stale
GetPaths ==
    { <<KeyA>>, <<KeyB, Num(1)>>, <<KeyC>>, <<Num(0), KeyA>>, <<Num(1), KeyA>>,
      <<KeyC, KeyD>> }

GetStep == Budget /\ Get

GetAtStep == Budget /\ \E path \in GetPaths : GetAt(path)

SetStep == Budget /\ \E value \in SetValues, saveHistory \in BOOLEAN : Set(value, saveHistory)

UpdateValueStep == Budget /\ \E a \in UpdateArgs : UpdateValue(a[1], a[2])

RenameKeyStep == Budget /\ \E a \in RenameArgs : RenameKey(a[1], a[2])

AddNodeStep == Budget /\ \E a \in AddArgs : AddNode(a[1], a[2], a[3], 1)

DeleteNodeStep == Budget /\ \E path \in DeletePaths : DeleteNode(path, 1)

DuplicateNodeStep == Budget /\ \E path \in DuplicatePaths : DuplicateNode(path)

MoveNodeStep == Budget /\ \E a \in MoveArgs : MoveNode(a[1], a[2], a[3])

\* the editing session continued on a document with integer-like keys and
\* with the further edits of the context menu and of drag and drop
SetKeysStep == Budget /\ \E saveHistory \in BOOLEAN : Set(DocKeys, saveHistory)

UpdateMoreStep == Budget /\ \E a \in UpdateMore : UpdateValue(a[1], a[2])

RenameMoreStep == Budget /\ \E a \in RenameMore : RenameKey(a[1], a[2])

AddMoreStep == Budget /\ \E a \in AddMore : AddNode(a[1], a[2], a[3], 1)

DeleteMoreStep == Budget /\ \E path \in DeleteMore : DeleteNode(path, 1)

DuplicateMoreStep == Budget /\ \E path \in DuplicateMore : DuplicateNode(path)

MoveMoreStep == Budget /\ \E a \in MoveMore : MoveNode(a[1], a[2], a[3])

Next ==
    \/ SetStep
    \/ UpdateValueStep
    \/ RenameKeyStep
    \/ AddNodeStep
    \/ DeleteNodeStep
    \/ DuplicateNodeStep
    \/ MoveNodeStep
    \/ SetKeysStep
    \/ UpdateMoreStep
    \/ RenameMoreStep
    \/ AddMoreStep
    \/ DeleteMoreStep
    \/ DuplicateMoreStep
    \/ MoveMoreStep
    \/ GetStep
    \/ GetAtStep
    \/ Undo

Spec == Init /\ [][Next]_vars

\* ------------------------------------------------------------------------
\* SpecNotify: the same session with listeners coming and going
\* ------------------------------------------------------------------------

\* number of registrations held at a time
MaxListeners == 2

\* the callbacks of the application: the renderer subscription of init() and
\* a second reader of the store
Listeners == {"render", "panel"}

\* store.subscribe(listener)
Subscribe(listener) ==
    Call("subscribe", [NoArgs EXCEPT !.listener = listener],
         Returned(subscribe(Cur, listener), Undefined), 0)

\* calling the function that subscribe(listener) returned
Unsubscribe(listener) ==
    Call("unsubscribe", [NoArgs EXCEPT !.listener = listener],
         Returned(unsubscribe(Cur, listener), Undefined), 0)

SubscribeStep ==
    /\ Len(listeners) < MaxListeners
    /\ \E l \in Listeners : Subscribe(l)

UnsubscribeStep ==
    \E l \in Listeners : (\E i \in 1..Len(listeners) : listeners[i] = l) /\ Unsubscribe(l)

NextNotify ==
    \/ SubscribeStep
    \/ UnsubscribeStep
    \/ SetStep
    \/ UpdateValueStep
    \/ RenameKeyStep
    \/ AddNodeStep
    \/ DeleteNodeStep
    \/ DuplicateNodeStep
    \/ MoveNodeStep
    \/ Undo

SpecNotify == Init /\ [][NextNotify]_vars

\* ------------------------------------------------------------------------
\* SpecHist: a caller that fills the history beyond maxHistory
\* ------------------------------------------------------------------------

\* longest root array the caller builds
MaxHistDoc == 52

\* the caller opens an empty list
HistLoad == data = Null /\ Set(Arr(<<>>), TRUE)

\* the caller appends to the list: "Infinity" first, "1" afterwards
HistAppend ==
    /\ IsArray(data)
    /\ Len(data.xs) < MaxHistDoc
    /\ AddNode(<<>>, <<>>,
               IF data.xs = <<>> THEN Str(InfinityChars) ELSE Str(<<"1">>), 0)

\* the caller tries to delete the root
HistDeleteRoot == DeleteNode(<<>>, 0)

NextHist ==
    \/ HistLoad
    \/ HistAppend
    \/ HistDeleteRoot
    \/ Undo

SpecHist == Init /\ [][NextHist]_vars

\* ------------------------------------------------------------------------
\* Properties
\* ------------------------------------------------------------------------

\* p is q or an ancestor of q
IsPrefixPath(p, q) == Len(p) <= Len(q) /\ SubSeq(q, 1, Len(p)) = p

\* path addresses an existing value of document d
Resolves(d, path) == getAt(d, path) \notin {Throw, Undefined}

Front(xs) == SubSeq(xs, 1, Len(xs) - 1)

\* the step is a call of undo()
UndoCalled == last'.op = "undo"

\* the last call was a mutating operation that ran to completion on a loaded
\* document and records history
RecordedMutation ==
    /\ last.op \in MutatingOps
    /\ last.notified
    /\ last.args.saveHistory
    /\ pre # Null

\* C1: undo inverse.  When a mutating operation has completed normally on a
\* loaded document D, an undo() called next returns true and leaves a
\* document equal to D.
C1_UndoInverse ==
    [][(RecordedMutation /\ UndoCalled) => (last'.ret = Bool(TRUE) /\ data' = pre)]_vars

\* renameKey(path, newKey) fails by its contract in store s: the parent is an
\* array, or newKey is another key of the parent
RenameRejected(s, path, newKey) ==
    LET target == TargetOf(s, ParentPath(path))
    IN  \/ IsArray(target)
        \/ IsObject(target) /\ MemberIndex(target.xs, newKey) # 0 /\ Str(newKey) # LastSeg(path)

\* addNode(path, key, value) fails by its contract in store s: the container
\* is an object and key is empty or already present
AddRejected(s, path, key) ==
    LET target == TargetOf(s, path)
    IN  IsObject(target) /\ (key = <<>> \/ MemberIndex(target.xs, key) # 0)

\* C2: no partial mutation on failure.  A renameKey or addNode call that
\* fails raises an error and leaves both the document and the history as
\* they were.
C2_FailureLeavesStore ==
    [][((\/ last'.op = "renameKey" /\ RenameRejected(Cur, last'.args.path, last'.args.key)
         \/ last'.op = "addNode" /\ AddRejected(Cur, last'.args.path, last'.args.key))
        => (last'.status = "threw" /\ data' = data /\ history' = history))]_vars

\* C3: no self-containment.  moveNode(p, q, position) with p not empty and q
\* equal to p or below p leaves the document unchanged.
C3_NoSelfContainment ==
    [][((last'.op = "moveNode" /\ last'.args.path # <<>>
         /\ IsPrefixPath(last'.args.path, last'.args.to))
        => data' = data)]_vars

\* the destination of a move cannot take the node: it does not resolve, or
\* the position is inside and it is no container
BadDestination(d, toPath, position) ==
    \/ ~Resolves(d, toPath)
    \/ position = "inside" /\ ~IsContainer(getAt(d, toPath))

\* C4: a moveNode whose source resolves and whose destination cannot take the
\* node raises an error and leaves the document unchanged.
C4_BadDestinationRaises ==
    [][((/\ last'.op = "moveNode"
         /\ last'.args.path # <<>>
         /\ Resolves(data, last'.args.path)
         /\ ~IsPrefixPath(last'.args.path, last'.args.to)
         /\ BadDestination(data, last'.args.to, last'.args.position))
        => (last'.status = "threw" /\ data' = data))]_vars

\* C5: the history never holds more than maxHistory snapshots.
C5_HistoryBound == Len(history) <= maxHistory

\* a full history after the caller has made more than maxHistory mutations
C5_FullAfterEviction == Len(history) = maxHistory /\ dropped

\* C6: oldest-first eviction.  A push onto a full history drops exactly the
\* oldest snapshot and keeps the others in order; and once more than
\* maxHistory mutations were made, undo() succeeds exactly while one of the
\* maxHistory most recent pre-states is left and restores the most recent one.
C6_EvictOldest ==
    [][(/\ ((/\ last'.op \in MutatingOps
             /\ last'.notified
             /\ last'.args.saveHistory
             /\ data # Null
             /\ Len(history) = maxHistory)
            => (Len(history') = maxHistory /\ Front(history') = Tail(history)))
        /\ ((dropped /\ ~tainted /\ UndoCalled)
            => (/\ last'.ret = Bool(trail # <<>>)
                /\ (trail # <<>> => data' = trail[Len(trail)]))))]_vars

\* C7: undo() is last-in-first-out.  On an empty history it returns false,
\* changes nothing and calls no listener; otherwise it returns true, removes
\* the newest snapshot only and installs the document that snapshot denotes;
\* canUndo() tells which of the two the next undo() does.
C7_UndoLifo ==
    [][(UndoCalled =>
          /\ canUndo(Cur) = (last'.ret = Bool(TRUE))
          /\ (history = <<>> =>
                /\ last'.ret = Bool(FALSE)
                /\ data' = data
                /\ history' = history
                /\ calls' = <<>>)
          /\ (history # <<>> =>
                /\ last'.ret = Bool(TRUE)
                /\ history' = Front(history)
                /\ data' = JSONparse(history[Len(history)])))]_vars

\* an undo() that popped a snapshot while two snapshots were stacked
C7_UndoPopped ==
    /\ last.op = "undo"
    /\ last.ret = Bool(TRUE)
    /\ Len(history) >= 1
    /\ calls # <<>>

\* C8: multi-step undo.  As long as only successful recorded mutations of a
\* loaded document and undos were made, each undo() returns true and restores
\* the document before the most recent mutation not yet undone.
C8_MultiStepUndo ==
    [][((~tainted /\ trail # <<>> /\ UndoCalled)
        => (last'.ret = Bool(TRUE) /\ data' = trail[Len(trail)]))]_vars

\* the step is a mutating call that completed successfully
Succeeded ==
    /\ last'.status = "returned"
    /\ \/ last'.op = "set"
       \/ last'.op = "undo" /\ last'.ret = Bool(TRUE)
       \/ last'.op \in MutatingOps /\ (data' # data \/ history' # history)

\* C9: a successful mutating call invokes every registered listener once, in
\* registration order, and each finds the mutated document and the pushed
\* history in the store.
C9_NotifyContract ==
    [][(Succeeded =>
          calls' = [i \in 1..Len(listeners) |->
                      [listener |-> listeners[i], data |-> data', history |-> history']])]_vars

\* two different listeners were called by a call that changed the document
C9_TwoNotified ==
    /\ Len(calls) = 2
    /\ calls[1].listener # calls[2].listener
    /\ last.op \in MutatingOps
    /\ data # pre

\* C10: a call that raises an error invokes no listener.
C10_FailureSilent == [][(last'.status = "threw" => calls' = <<>>)]_vars

\* a call raised while a listener was registered
C10_RaisedWithListener == last.status = "threw" /\ listeners # <<>>

\* ------------------------------------------------------------------------
\* Properties of the structural edits
\* ------------------------------------------------------------------------

\* the step is a call of op
Calls(op) == last'.op = op

\* the array that holds both ends of a move between two different valid
\* indices of one array, in document d
SiblingArray(d, fromPath, toPath) == getAt(d, ParentPath(fromPath))

IsSiblingMove(d, fromPath, toPath) ==
    /\ fromPath # <<>>
    /\ Len(toPath) = Len(fromPath)
    /\ ParentPath(toPath) = ParentPath(fromPath)
    /\ LastSeg(fromPath).t = "number"
    /\ LastSeg(toPath).t = "number"
    /\ LastSeg(fromPath) # LastSeg(toPath)
    /\ IsArray(SiblingArray(d, fromPath, toPath))
    /\ LastSeg(fromPath).v \in 0..(Len(SiblingArray(d, fromPath, toPath).xs) - 1)
    /\ LastSeg(toPath).v \in 0..(Len(SiblingArray(d, fromPath, toPath).xs) - 1)

\* ys is xs with the element at index i taken out and put back immediately
\* before (after) the element that was at index j, nothing else reordered
MovedBeside(xs, ys, i, j, position) ==
    /\ Len(ys) = Len(xs)
    /\ \E p \in 1..Len(ys) :
          /\ ys[p] = xs[i + 1]
          /\ RemoveAt(ys, p) = RemoveAt(xs, i + 1)
          /\ position = "before" => (p < Len(ys) /\ ys[p + 1] = xs[j + 1])
          /\ position = "after" => (p > 1 /\ ys[p - 1] = xs[j + 1])

\* C11: same-array move renumbering.  moveNode between two different valid
\* indices i and j of one array, position before or after, returns normally
\* and leaves an array of the same length in which the moved element sits
\* immediately before (after) the element that was at j, the other elements
\* in their former relative order.
C11_SiblingMove ==
    [][((/\ Calls("moveNode")
         /\ last'.args.position \in {"before", "after"}
         /\ IsSiblingMove(data, last'.args.path, last'.args.to))
        => (/\ last'.status = "returned"
            /\ IsArray(getAt(data', ParentPath(last'.args.path)))
            /\ MovedBeside(SiblingArray(data, last'.args.path, last'.args.to).xs,
                           getAt(data', ParentPath(last'.args.path)).xs,
                           last'.args.path[Len(last'.args.path)].v,
                           last'.args.to[Len(last'.args.to)].v,
                           last'.args.position)))]_vars

\* the object that holds the member a path addresses, in document d
ParentOf(d, path) == getAt(d, ParentPath(path))

\* path addresses a member of an object of document d by its key text
AddressesMember(d, path) ==
    /\ path # <<>>
    /\ LastSeg(path).t = "string"
    /\ IsObject(ParentOf(d, path))
    /\ MemberIndex(ParentOf(d, path).xs, LastSeg(path).v) # 0

\* the members ms with the key oldKey replaced by newKey, in place
Renamed(ms, oldKey, newKey) ==
    [i \in 1..Len(ms) |-> IF ms[i][1] = oldKey THEN <<newKey, ms[i][2]>> ELSE ms[i]]

\* C12: renameKey preserves position.  After a successful renameKey(path,
\* newKey) on a member ki of an object with keys k1..kn the object has the
\* keys k1..k(i-1), newKey, k(i+1)..kn, newKey holds the value ki held and
\* every other member holds the value it held.
C12_RenameInPlace ==
    [][((/\ Calls("renameKey")
         /\ AddressesMember(data, last'.args.path)
         /\ last'.status = "returned")
        => (/\ IsObject(ParentOf(data', last'.args.path))
            /\ ParentOf(data', last'.args.path).xs =
                 Renamed(ParentOf(data, last'.args.path).xs,
                         LastSeg(last'.args.path).v, last'.args.key)))]_vars

\* C13: renameKey validity.  On a loaded document renameKey raises when the
\* parent of the path is an array, raises when newKey is a key of the parent
\* other than the old key, and returns normally with the document unchanged
\* when newKey is the old key.
C13_RenameValidity ==
    [][((Calls("renameKey") /\ last'.args.path # <<>>)
        => (/\ IsArray(ParentOf(data, last'.args.path)) => last'.status = "threw"
            /\ (/\ IsObject(ParentOf(data, last'.args.path))
                /\ MemberIndex(ParentOf(data, last'.args.path).xs, last'.args.key) # 0
                /\ Str(last'.args.key) # LastSeg(last'.args.path))
               => last'.status = "threw"
            /\ (/\ AddressesMember(data, last'.args.path)
                /\ Str(last'.args.key) = LastSeg(last'.args.path))
               => (last'.status = "returned" /\ data' = data)))]_vars

\* a member was renamed to the key it already had and the call went through
C13_RenamedToItself ==
    /\ last.op = "renameKey"
    /\ AddressesMember(pre, last.args.path)
    /\ Str(last.args.key) = LastSeg(last.args.path)
    /\ last.status = "returned"
    /\ last.notified
    /\ data = pre

\* every object of value x has pairwise distinct keys
RECURSIVE DistinctKeys(_)
DistinctKeys(x) ==
    CASE x.t = "array" -> \A i \in 1..Len(x.xs) : DistinctKeys(x.xs[i])
      [] x.t = "object" ->
            /\ \A i, j \in 1..Len(x.xs) : x.xs[i][1] = x.xs[j][1] => i = j
            /\ \A i \in 1..Len(x.xs) : DistinctKeys(x.xs[i][2])
      [] OTHER -> TRUE

\* the path of the container that receives the member a call c inserts or
\* renames
ReceiverPath(c) ==
    CASE c.op = "addNode" -> c.args.path
      [] c.op = "moveNode" /\ c.args.position = "inside" -> c.args.to
      [] c.op = "moveNode" -> ParentPath(c.args.to)
      [] OTHER -> ParentPath(c.args.path)

\* the call c, made on document d, inserts a member into its receiver: an
\* addNode, a duplicateNode of a member, or a moveNode of an existing node
\* from another container to a destination that exists
Inserts(c, d) ==
    CASE c.op = "addNode" -> TRUE
      [] c.op = "duplicateNode" -> AddressesMember(d, c.args.path)
      [] c.op = "moveNode" ->
            /\ c.args.path # <<>>
            /\ Resolves(d, c.args.path)
            /\ ~IsPrefixPath(c.args.path, c.args.to)
            /\ ParentPath(c.args.path) # ReceiverPath(c)
            /\ (c.args.position = "inside" \/ AddressesMember(d, c.args.to))
      [] OTHER -> FALSE

\* the member key of the receiver is the one the call c itself takes away or
\* reaches into: the renamed key, or the member the moved node comes out of
OwnMember(c, key) ==
    \/ c.op = "renameKey" /\ LastSeg(c.args.path) = Str(key)
    \/ /\ c.op = "moveNode"
       /\ Len(c.args.path) > Len(ReceiverPath(c))
       /\ IsPrefixPath(ReceiverPath(c), c.args.path)
       /\ ToStringChars(c.args.path[Len(ReceiverPath(c)) + 1]) = key

\* every other member the receiver had in d has the same value in d2
KeepsSiblings(c, d, d2) ==
    LET old == getAt(d, ReceiverPath(c))
        new == getAt(d2, ReceiverPath(c))
    IN  \A i \in 1..Len(old.xs) :
            OwnMember(c, old.xs[i][1]) \/ GetProp(new, Str(old.xs[i][1])) = old.xs[i][2]

\* C14: sibling-key uniqueness and no clobbering.  Every object of the
\* document has pairwise distinct keys at all times; and a successful addNode,
\* renameKey, duplicateNode or moveNode leaves every pre-existing sibling of
\* the receiving object with its value, the receiving object having exactly
\* one member more after an insertion.
C14_NoClobber ==
    /\ []DistinctKeys(data)
    /\ [][((/\ last'.op \in {"addNode", "renameKey", "duplicateNode", "moveNode"}
            /\ last'.status = "returned"
            /\ last'.notified
            /\ IsObject(getAt(data, ReceiverPath(last'))))
           => (/\ IsObject(getAt(data', ReceiverPath(last')))
               /\ KeepsSiblings(last', data, data')
               /\ Inserts(last', data)
                    => Len(getAt(data', ReceiverPath(last')).xs)
                         = Len(getAt(data, ReceiverPath(last')).xs) + 1))]_vars

\* the n-th key duplicateNode tries for the key k: k_copy, k_copy_1, ...
CopyCandidate(k, n) ==
    IF n = 0 THEN k \o <<"_", "c", "o", "p", "y">>
    ELSE k \o <<"_", "c", "o", "p", "y", "_">> \o NatChars(n)

\* the first candidate that is no key of the members ms
FirstFreeCopyKey(ms, k) ==
    LET free(n) == MemberIndex(ms, CopyCandidate(k, n)) = 0
    IN  CopyCandidate(k, CHOOSE n \in 0..Len(ms) : free(n) /\ \A m \in 0..(n - 1) : ~free(m))

\* C15: duplicateNode in an object.  duplicateNode of the member k of an
\* object returns normally and leaves the object with one new member, placed
\* immediately after k, whose key is the first of k_copy, k_copy_1, ... that
\* was free and whose value equals the value of k; the other members keep
\* their order and values.
C15_DuplicateMember ==
    [][((Calls("duplicateNode") /\ AddressesMember(data, last'.args.path))
        => (/\ last'.status = "returned"
            /\ IsObject(ParentOf(data', last'.args.path))
            /\ LET ms == ParentOf(data, last'.args.path).xs
                   k == LastSeg(last'.args.path).v
                   i == MemberIndex(ms, k)
               IN  ParentOf(data', last'.args.path).xs =
                     InsertAt(ms, i, <<FirstFreeCopyKey(ms, k), ms[i][2]>>)))]_vars

\* path addresses an element of an array of document d by a valid index
AddressesElement(d, path) ==
    /\ path # <<>>
    /\ LastSeg(path).t = "number"
    /\ IsArray(ParentOf(d, path))
    /\ LastSeg(path).v \in 0..(Len(ParentOf(d, path).xs) - 1)

\* C16: duplicateNode in an array.  duplicateNode of the element at a valid
\* index i of an array of length n returns normally and leaves an array of
\* length n + 1 whose element i + 1 equals element i, the elements 0..i as
\* they were and the former elements i + 1..n - 1 one place up.
C16_DuplicateElement ==
    [][((Calls("duplicateNode") /\ AddressesElement(data, last'.args.path))
        => (/\ last'.status = "returned"
            /\ IsArray(ParentOf(data', last'.args.path))
            /\ LET xs == ParentOf(data, last'.args.path).xs
                   i == LastSeg(last'.args.path).v
               IN  ParentOf(data', last'.args.path).xs = InsertAt(xs, i + 1, xs[i + 1])))]_vars

\* C17: the root is immovable and not duplicable.  duplicateNode([]) and
\* moveNode([], q, position) return normally, leave the document, the history
\* and the listener list as they were and call no listener.
C17_RootStays ==
    [][(((Calls("duplicateNode") \/ Calls("moveNode")) /\ last'.args.path = <<>>)
        => (/\ last'.status = "returned"
            /\ data' = data
            /\ history' = history
            /\ listeners' = listeners
            /\ calls' = <<>>))]_vars

\* the root of a loaded document with a snapshot in the history was asked to
\* move while a listener was registered
C17_RootMoveAsked ==
    /\ last.op = "moveNode"
    /\ last.args.path = <<>>
    /\ IsContainer(data)
    /\ history # <<>>
    /\ listeners # <<>>

\* C18: the root cannot be deleted.  deleteNode([]) raises, leaves the
\* document and the history as they were and calls no listener; and no
\* deleteNode, renameKey, duplicateNode or moveNode call leaves a loaded store
\* without a document.
C18_RootNotDeleted ==
    [][(/\ (Calls("deleteNode") /\ last'.args.path = <<>>)
             => (/\ last'.status = "threw"
                 /\ data' = data
                 /\ history' = history
                 /\ calls' = <<>>)
        /\ (/\ last'.op \in {"deleteNode", "renameKey", "duplicateNode", "moveNode"}
            /\ data # Null)
             => data' # Null)]_vars

\* deleteNode([]) raised on a loaded document with a snapshot in the history
\* and a listener registered
C18_RootDeleteRaised ==
    /\ last.op = "deleteNode"
    /\ last.args.path = <<>>
    /\ last.status = "threw"
    /\ IsContainer(data)
    /\ history # <<>>
    /\ listeners # <<>>

\* the array xs without the element at index i, the later elements one place
\* down
WithoutElement(xs, i) == [k \in 1..(Len(xs) - 1) |-> IF k <= i THEN xs[k] ELSE xs[k + 1]]

\* the members ms without the key k, the others in their order
WithoutMember(ms, k) == SelectSeq(ms, LAMBDA m : m[1] # k)

\* C19: deleteNode semantics.  deleteNode of a valid non-empty path returns
\* normally; if the parent is an array of length n it is left with length
\* n - 1, the element at the index removed and the later elements one place
\* down; if the parent is an object the addressed key is removed and the
\* other members keep their order and values; nothing outside the parent
\* changes.
C19_DeleteNode ==
    [][(Calls("deleteNode") =>
          /\ AddressesElement(data, last'.args.path)
               => (/\ last'.status = "returned"
                   /\ data' = ReplaceAt(data, ParentPath(last'.args.path),
                                Arr(WithoutElement(ParentOf(data, last'.args.path).xs,
                                                   LastSeg(last'.args.path).v))))
          /\ AddressesMember(data, last'.args.path)
               => (/\ last'.status = "returned"
                   /\ data' = ReplaceAt(data, ParentPath(last'.args.path),
                                Obj(WithoutMember(ParentOf(data, last'.args.path).xs,
                                                  LastSeg(last'.args.path).v)))))]_vars

\* an element that was not the last of its array has been deleted
C19_ElementDeleted ==
    /\ last.op = "deleteNode"
    /\ last.status = "returned"
    /\ AddressesElement(pre, last.args.path)
    /\ LastSeg(last.args.path).v + 1 < Len(ParentOf(pre, last.args.path).xs)
    /\ Len(ParentOf(data, last.args.path).xs) + 1 = Len(ParentOf(pre, last.args.path).xs)

\* C20: addNode semantics.  If the container at the path is an array, addNode
\* returns normally with the coerced value appended as the last element,
\* whatever the key; if it is an object, an empty key raises, a key already
\* present raises, and otherwise the coerced value is inserted as the last
\* member, the existing members as they were in order and value.
C20_AddNode ==
    [][(Calls("addNode") =>
          LET target == getAt(data, last'.args.path)
              key == last'.args.key
              finalVal == NormalizeAdd(last'.args.value)
          IN  /\ IsArray(target)
                   => (/\ last'.status = "returned"
                       /\ data' = ReplaceAt(data, last'.args.path,
                                            Arr(Append(target.xs, finalVal))))
              /\ (IsObject(target) /\ key = <<>>) => last'.status = "threw"
              /\ (IsObject(target) /\ MemberIndex(target.xs, key) # 0)
                   => last'.status = "threw"
              /\ (IsObject(target) /\ key # <<>> /\ MemberIndex(target.xs, key) = 0)
                   => (/\ last'.status = "returned"
                       /\ data' = ReplaceAt(data, last'.args.path,
                                            Obj(Append(target.xs, <<key, finalVal>>)))))]_vars

\* ------------------------------------------------------------------------
\* Properties of reading, loading and coercion
\* ------------------------------------------------------------------------

\* the value document d holds at path, every segment addressing a member of
\* an object by its key or an element of an array by an index in range;
\* Throw when some segment addresses nothing
RECURSIVE ValueAt(_, _)
ValueAt(d, path) ==
    IF path = <<>> THEN d
    ELSE IF IsObject(d) /\ path[1].t = "string" /\ MemberIndex(d.xs, path[1].v) # 0
    THEN ValueAt(d.xs[MemberIndex(d.xs, path[1].v)][2], Tail(path))
    ELSE IF IsArray(d) /\ path[1].t = "number" /\ path[1].v \in 0..(Len(d.xs) - 1)
    THEN ValueAt(d.xs[path[1].v + 1], Tail(path))
    ELSE Throw

\* C21: updateValue failure modes.  updateValue raises when no document is
\* loaded and raises when the parent of the path does not resolve; in both
\* cases the document and the history are left as they were.
C21_UpdateFailures ==
    [][((/\ Calls("updateValue")
         /\ last'.args.path # <<>>
         /\ (data = Null \/ ValueAt(data, ParentPath(last'.args.path)) = Throw))
        => (last'.status = "threw" /\ data' = data /\ history' = history))]_vars

\* C22: getAt path resolution.  getAt(path) returns the value the path
\* addresses when every segment resolves and raises when an intermediate
\* segment addresses no container or the last segment addresses nothing; it
\* changes neither the document nor the history nor the listener list.
C22_GetAtResolves ==
    [][(Calls("getAt") =>
          /\ ValueAt(data, last'.args.path) # Throw
               => (last'.status = "returned" /\ last'.ret = ValueAt(data, last'.args.path))
          /\ ValueAt(data, last'.args.path) = Throw => last'.status = "threw"
          /\ data' = data
          /\ history' = history
          /\ listeners' = listeners)]_vars

\* C23: set history rule.  set(value, saveHistory) pushes exactly one
\* snapshot, which denotes the prior document, when saveHistory is true and a
\* prior document existed; it leaves the history as it was when saveHistory is
\* false or the store was empty; in all cases it returns normally and every
\* listener is called after the assignment.
C23_SetHistoryRule ==
    [][(Calls("set") =>
          /\ (last'.args.saveHistory /\ data # Null)
               => (/\ history' # <<>>
                   /\ JSONparse(history'[Len(history')]) = data
                   /\ Front(history') = IF Len(history) = maxHistory THEN Tail(history)
                                        ELSE history)
          /\ (~last'.args.saveHistory \/ data = Null) => history' = history
          /\ last'.status = "returned"
          /\ data' = last'.args.value
          /\ calls' = [i \in 1..Len(listeners) |->
                         [listener |-> listeners[i], data |-> last'.args.value,
                          history |-> history']])]_vars

\* C24: round trip.  Whatever the store held before and whatever the
\* saveHistory setting, a get() that follows set(v) returns v, member for
\* member in the same key order.
C24_SetGetRoundTrip ==
    [][((Calls("get") /\ last.op = "set")
        => (last'.status = "returned" /\ last'.ret = last.args.value))]_vars

\* get() returned the document with integer-like keys that a set had just
\* put in the place of another document
C24_GotWhatWasSet ==
    /\ last.op = "get"
    /\ last.ret = DocKeys
    /\ pre = DocKeys
    /\ history = <<JSONstringify(DocAB)>>

\* a text that parses fully as a number: an optionally signed run of decimal
\* digits or an optionally signed Infinity
IsNumeral(t) ==
    /\ t # <<>>
    /\ LET body == IF t[1] \in {"-", "+"} THEN Tail(t) ELSE t
       IN  AllDigits(body) \/ body = InfinityChars

\* the number a numeral denotes
NumeralValue(t) ==
    LET neg == t[1] = "-"
        body == IF t[1] \in {"-", "+"} THEN Tail(t) ELSE t
    IN  IF body = InfinityChars THEN (IF neg THEN NegInfinity ELSE Infinity)
        ELSE Num(IF neg THEN 0 - DigitsVal(body) ELSE DigitsVal(body))

\* the coercion policy, first matching rule: a trimmed text that begins and
\* ends with a double quote is the string between them; true and false are
\* booleans; null is null; a numeral is its number; any other text is stored
\* as it was typed; a value that is no text is stored as it is
Coerced(raw) ==
    IF raw.t # "string" THEN raw
    ELSE LET t == Trim(raw.v)
         IN  IF t # <<>> /\ t[1] = "\"" /\ t[Len(t)] = "\""
             THEN Str(SubSeq(t, 2, Len(t) - 1))
             ELSE IF t = <<"t", "r", "u", "e">> THEN Bool(TRUE)
             ELSE IF t = <<"f", "a", "l", "s", "e">> THEN Bool(FALSE)
             ELSE IF t = <<"n", "u", "l", "l">> THEN Null
             ELSE IF IsNumeral(t) THEN NumeralValue(t)
             ELSE raw

\* C25: coercion policy.  A successful updateValue leaves the coerced input
\* at the path, and a successful addNode leaves the coerced input as the last
\* element of the array or under the key of the object, both by the same
\* policy.
C25_CoercionPolicy ==
    [][(/\ (Calls("updateValue") /\ last'.status = "returned" /\ last'.notified)
             => getAt(data', last'.args.path) = Coerced(last'.args.value)
        /\ (/\ Calls("addNode")
            /\ last'.status = "returned"
            /\ IsArray(getAt(data, last'.args.path)))
             => (LET xs == getAt(data', last'.args.path).xs
                 IN  xs # <<>> /\ xs[Len(xs)] = Coerced(last'.args.value))
        /\ (/\ Calls("addNode")
            /\ last'.status = "returned"
            /\ IsObject(getAt(data, last'.args.path)))
             => GetProp(getAt(data', last'.args.path), Str(last'.args.key))
                  = Coerced(last'.args.value))]_vars

\* a quoted text has been stored as the string between the quotes
C25_QuotedStored ==
    /\ last.op = "updateValue"
    /\ last.args.value = Str(<<"\"", "4", "2", "\"">>)
    /\ last.notified
    /\ getAt(data, last.args.path) = Str(<<"4", "2">>)

\* ------------------------------------------------------------------------
\* Properties of moves between containers
\* ------------------------------------------------------------------------

\* the n-th key a move tries for the source key k: k, k_1, k_2, ...
MoveCandidate(k, n) == IF n = 0 THEN k ELSE k \o <<"_">> \o NatChars(n)

\* the first candidate that is no key of the members ms
FirstFreeMoveKey(ms, k) ==
    LET free(n) == MemberIndex(ms, MoveCandidate(k, n)) = 0
    IN  MoveCandidate(k, CHOOSE n \in 0..Len(ms) : free(n) /\ \A m \in 0..(n - 1) : ~free(m))

\* document d without the member of an object that path addresses
WithoutSource(d, path) ==
    ReplaceAt(d, ParentPath(path),
              Obj(WithoutMember(ParentOf(d, path).xs, LastSeg(path).v)))

\* the members ms with the value v inserted under the first free key for k
\* immediately before or after the member destKey
InsertedBeside(ms, destKey, k, v, position) ==
    LET i == MemberIndex(ms, destKey)
    IN  InsertAt(ms, IF position = "before" THEN i - 1 ELSE i,
                 <<FirstFreeMoveKey(ms, k), v>>)

\* C26: moveNode before/after into an object.  A successful moveNode of an
\* object member beside another member of an object, the destination not
\* inside the source, leaves the destination parent with the members it had
\* once the source was taken out, in their order and with their values, and
\* the moved value (as JSON renders it) under the first of k, k_1, k_2, ...
\* that collides with none of them, immediately before (resp. after) the
\* destination key; also when the source key equals the destination key.
C26_MoveBesideMember ==
    [][((/\ Calls("moveNode")
         /\ last'.args.position \in {"before", "after"}
         /\ AddressesMember(data, last'.args.path)
         /\ AddressesMember(data, last'.args.to)
         /\ last'.args.path # last'.args.to
         /\ ~IsPrefixPath(last'.args.path, last'.args.to))
        => (/\ last'.status = "returned"
            /\ getAt(data', ParentPath(last'.args.to)).xs
                 = InsertedBeside(getAt(WithoutSource(data, last'.args.path),
                                        ParentPath(last'.args.to)).xs,
                                  LastSeg(last'.args.to).v,
                                  LastSeg(last'.args.path).v,
                                  JsonImage(getAt(data, last'.args.path)),
                                  last'.args.position)))]_vars

\* path addresses a member or an element of document d
AddressesNode(d, path) == AddressesMember(d, path) \/ AddressesElement(d, path)

\* document d without the node that path addresses
WithoutNode(d, path) ==
    ReplaceAt(d, ParentPath(path),
              IF IsArray(ParentOf(d, path))
              THEN Arr(WithoutElement(ParentOf(d, path).xs, LastSeg(path).v))
              ELSE Obj(WithoutMember(ParentOf(d, path).xs, LastSeg(path).v)))

\* the segment of toPath that indexes the array the source is taken out of
\* at a later index, 0 if there is none
ShiftedSegment(d, fromPath, toPath) ==
    IF /\ AddressesElement(d, fromPath)
       /\ Len(toPath) >= Len(fromPath)
       /\ IsPrefixPath(ParentPath(fromPath), toPath)
       /\ IndexOf(toPath[Len(fromPath)]) > LastSeg(fromPath).v
    THEN Len(fromPath)
    ELSE 0

\* the path that addresses, once the source is taken out, the node toPath
\* addressed before
Readdressed(d, fromPath, toPath) ==
    LET n == ShiftedSegment(d, fromPath, toPath)
    IN  IF n = 0 THEN toPath
        ELSE [toPath EXCEPT ![n] = Num(IndexOf(toPath[n]) - 1)]

\* the container c with the value v appended: as the last element, or as the
\* last member under the first free key for k
AppendedInside(c, k, v) ==
    IF IsArray(c) THEN Arr(Append(c.xs, v))
    ELSE Obj(Append(c.xs, <<FirstFreeMoveKey(c.xs, k), v>>))

\* C27: moveNode inside.  A moveNode of an existing node inside a container
\* that is neither the source nor inside it returns normally; the source is
\* taken out of its parent and the same value (as JSON renders it) is the
\* last element of the destination array, or the last member of the
\* destination object under the source key or the first of k_1, k_2, ... that
\* is free; the members the destination had are unchanged.  (Destinations
\* addressed through a later sibling of the source are the subject of C30.)
C27_MoveInside ==
    [][((/\ Calls("moveNode")
         /\ last'.args.position = "inside"
         /\ AddressesNode(data, last'.args.path)
         /\ Resolves(data, last'.args.to)
         /\ IsContainer(getAt(data, last'.args.to))
         /\ ~IsPrefixPath(last'.args.path, last'.args.to)
         /\ ShiftedSegment(data, last'.args.path, last'.args.to)
              \in {0, Len(last'.args.to)})
        => (/\ last'.status = "returned"
            /\ getAt(data', Readdressed(data, last'.args.path, last'.args.to))
                 = AppendedInside(getAt(WithoutNode(data, last'.args.path),
                                        Readdressed(data, last'.args.path, last'.args.to)),
                                  ToStringChars(LastSeg(last'.args.path)),
                                  JsonImage(getAt(data, last'.args.path)))))]_vars

\* ------------------------------------------------------------------------
\* Properties of key order
\* ------------------------------------------------------------------------

\* the path segments of the seed documents
Segments == {KeyA, KeyB, KeyC, Key1, Key2, Num(0), Num(1), Num(2)}

\* the paths of at most two segments
ShortPaths ==
    {<<>>} \cup {<<a>> : a \in Segments} \cup {<<a, b>> : a \in Segments, b \in Segments}

\* the keys of the members ms
KeySet(ms) == {ms[i][1] : i \in 1..Len(ms)}

\* the keys of the members ms that are in the set U, in their order
KeysAmong(ms, U) ==
    LET sel == SelectSeq(ms, LAMBDA m : m[1] \in U)
    IN  [i \in 1..Len(sel) |-> sel[i][1]]

\* the keys of the object at path p that the call c names: the key it
\* renames and the new name, or the key of the node it moves
TouchedKeys(c, p) ==
    IF c.args.path = <<>> \/ ParentPath(c.args.path) # p THEN {}
    ELSE CASE c.op = "renameKey" -> {ToStringChars(LastSeg(c.args.path)), c.args.key}
           [] c.op = "moveNode" -> {ToStringChars(LastSeg(c.args.path))}
           [] OTHER -> {}

\* the path, after the call c on document d, of the object that was at p
PathAfter(c, d, p) ==
    LET n == ShiftedSegment(d, c.args.path, p)
    IN  CASE c.op = "moveNode" -> Readdressed(d, c.args.path, p)
          [] c.op = "duplicateNode" /\ n # 0 -> [p EXCEPT ![n] = Num(IndexOf(p[n]) + 1)]
          [] OTHER -> p

\* the call c is a renameKey, a duplicateNode or a moveNode inside that
\* returned normally after changing the document
OrderKeepingCall(c) ==
    /\ \/ c.op \in {"renameKey", "duplicateNode"}
       \/ c.op = "moveNode" /\ c.args.position = "inside"
    /\ c.status = "returned"
    /\ c.notified

\* C28: order preservation.  Over every successful renameKey, duplicateNode
\* and moveNode inside, every object of the document that is not itself
\* moved keeps the keys the call does not name in the same relative order;
\* holding at each step, it holds over every sequence of such calls for the
\* keys none of them names.
C28_OrderPreserved ==
    [][OrderKeepingCall(last')
        => \A p \in ShortPaths :
              (/\ IsObject(getAt(data, p))
               /\ ~(last'.op = "moveNode" /\ IsPrefixPath(last'.args.path, p)))
              => LET old == getAt(data, p).xs
                     after == getAt(data', PathAfter(last', data, p))
                     U == KeySet(old) \ TouchedKeys(last', p)
                 IN  /\ IsObject(after)
                     /\ KeysAmong(old, U \cap KeySet(after.xs))
                          = KeysAmong(after.xs, U \cap KeySet(old))]_vars

\* a member of the document with integer-like keys was renamed and another
\* one duplicated, and the members neither call named are in their order
C28_TwoEditsKeptOrder ==
    /\ last.op = "duplicateNode"
    /\ last.notified
    /\ Len(history) = 2
    /\ history[1] = JSONstringify(DocKeys)
    /\ IsObject(data)
    /\ MemberIndex(data.xs, KeyB.v) # 0
    /\ KeysAmong(data.xs, {Key1.v, KeyA.v}) = <<Key1.v, KeyA.v>>

\* ------------------------------------------------------------------------
\* Properties of invalid requests
\* ------------------------------------------------------------------------

\* the parent of path is a container of document d that has no member or
\* element under the terminal segment of path
MissingTerminal(d, path) ==
    /\ path # <<>>
    /\ IsContainer(ParentOf(d, path))
    /\ IF IsArray(ParentOf(d, path))
       THEN IndexOf(LastSeg(path)) \notin 0..(Len(ParentOf(d, path).xs) - 1)
       ELSE MemberIndex(ParentOf(d, path).xs, ToStringChars(LastSeg(path))) = 0

\* C29: invalid requests are never silently accepted.  deleteNode, renameKey
\* and duplicateNode called on a loaded document with a path whose terminal
\* key or index does not exist in its parent raise an error, push no history
\* and notify no listener.
C29_MissingTargetRaises ==
    [][((/\ last'.op \in {"deleteNode", "renameKey", "duplicateNode"}
         /\ data # Null
         /\ MissingTerminal(data, last'.args.path))
        => (/\ last'.status = "threw"
            /\ ~last'.notified
            /\ history' = history))]_vars

\* ------------------------------------------------------------------------
\* Properties of destination addressing
\* ------------------------------------------------------------------------

\* the container that receives a value v moved from the key k to the
\* position relative to the node at path in document d
Received(d, path, k, v, position) ==
    IF position = "inside" THEN AppendedInside(getAt(d, path), k, v)
    ELSE IF IsArray(ParentOf(d, path))
    THEN Arr(InsertAt(ParentOf(d, path).xs,
                      IF position = "before" THEN LastSeg(path).v ELSE LastSeg(path).v + 1,
                      v))
    ELSE Obj(InsertedBeside(ParentOf(d, path).xs, ToStringChars(LastSeg(path)),
                            k, v, position))

\* the path of the container that receives a value moved to path
ReceivingPath(path, position) ==
    IF position = "inside" THEN path ELSE ParentPath(path)

\* C30: destination re-addressing after removal.  When moveNode takes the
\* source out of an array at index i and toPath passes through that array
\* at an index j > i in a non-terminal segment, the call returns normally
\* and the value (as JSON renders it) is inserted relative to the node that
\* toPath addressed before the call.
C30_Readdressing ==
    [][((/\ Calls("moveNode")
         /\ AddressesElement(data, last'.args.path)
         /\ ShiftedSegment(data, last'.args.path, last'.args.to)
              \notin {0, Len(last'.args.to)}
         /\ IF last'.args.position = "inside"
            THEN Resolves(data, last'.args.to) /\ IsContainer(getAt(data, last'.args.to))
            ELSE AddressesNode(data, last'.args.to))
        => LET to1 == Readdressed(data, last'.args.path, last'.args.to)
               d1 == WithoutNode(data, last'.args.path)
           IN  /\ last'.status = "returned"
               /\ getAt(data', ReceivingPath(to1, last'.args.position))
                    = Received(d1, to1, ToStringChars(LastSeg(last'.args.path)),
                               JsonImage(getAt(data, last'.args.path)),
                               last'.args.position))]_vars

\* ------------------------------------------------------------------------
\* Properties of the frame of updateValue and of the descendant test
\* ------------------------------------------------------------------------

\* document d with the value v in the place of the node that path addresses,
\* every key and every other value where it was
WithValueAt(d, path, v) ==
    LET parent == ParentOf(d, path)
    IN  ReplaceAt(d, ParentPath(path),
                  IF IsArray(parent)
                  THEN Arr([parent.xs EXCEPT ![LastSeg(path).v + 1] = v])
                  ELSE Obj([parent.xs EXCEPT ![MemberIndex(parent.xs, LastSeg(path).v)]
                                               = <<LastSeg(path).v, v>>]))

\* C31: updateValue frame.  A successful updateValue(path, input) on a path
\* whose terminal key or index exists leaves the document it found with the
\* coerced input at the path and nothing else changed, key order included,
\* and pushes exactly one snapshot, which denotes the document it found, on
\* top of the history (the oldest snapshot leaving a full history).
C31_UpdateFrame ==
    [][((/\ Calls("updateValue")
         /\ AddressesNode(data, last'.args.path)
         /\ last'.status = "returned"
         /\ last'.notified)
        => (/\ data' = WithValueAt(data, last'.args.path, Coerced(last'.args.value))
            /\ history' # <<>>
            /\ JSONparse(history'[Len(history')]) = data
            /\ Front(history') = IF Len(history) = maxHistory THEN Tail(history)
                                 ELSE history))]_vars

\* ------------------------------------------------------------------------
\* SpecWide: drag and drop on a list of more than ten elements
\* ------------------------------------------------------------------------

\* [0,1,2,3,4,5,6,7,8,9,[5]]
DocWide == Arr([i \in 1..10 |-> Num(i - 1)] \o <<Arr(<<Num(5)>>)>>)

\* the drops of the session: into and beside the last element, which is a
\* list itself, out of it, and between plain elements
WideMoves ==
    { <<<<Num(1)>>, <<Num(10), Num(0)>>, "before">>,
      <<<<Num(1)>>, <<Num(10)>>, "inside">>,
      <<<<Num(2)>>, <<Num(10), Num(0)>>, "after">>,
      <<<<Num(10)>>, <<Num(10), Num(0)>>, "before">>,
      <<<<Num(10), Num(0)>>, <<Num(1)>>, "before">>,
      <<<<Num(0)>>, <<Num(9)>>, "after">>,
      <<<<Num(9)>>, <<Num(0)>>, "before">>,
      <<<<Num(3)>>, <<Num(4)>>, "after">>,
      <<<<Num(10), Num(0)>>, <<>>, "inside">> }

\* the list is loaded
WideLoad == data = Null /\ Set(DocWide, TRUE)

\* one drop
WideMove == Budget /\ data # Null /\ \E a \in WideMoves : MoveNode(a[1], a[2], a[3])

NextWide ==
    \/ WideLoad
    \/ WideMove
    \/ Undo

SpecWide == Init /\ [][NextWide]_vars

\* toPath addresses a node strictly below the node fromPath addresses
StrictDescendant(fromPath, toPath) ==
    IsPrefixPath(fromPath, toPath) /\ Len(toPath) > Len(fromPath)

\* C32: descendant rejection is exact.  A moveNode of a node other than the
\* root returns without effect and without notification only when toPath is
\* a strict descendant of fromPath; a destination whose leading index merely
\* has the source index as a decimal prefix is not rejected.
C32_DescendantExact ==
    [][((/\ Calls("moveNode")
         /\ last'.args.path # <<>>
         /\ last'.status = "returned"
         /\ ~last'.notified)
        => StrictDescendant(last'.args.path, last'.args.to))]_vars

\* ------------------------------------------------------------------------
\* Properties of the history as a store of snapshots
\* ------------------------------------------------------------------------

\* the history h after the text of document d was pushed on top, the oldest
\* entry evicted from a full history
PushedOnTop(h, d) ==
    IF Len(h) = maxHistory THEN Append(Tail(h), JSONstringify(d))
    ELSE Append(h, JSONstringify(d))

\* C33: snapshot isolation.  Every history entry is a text, never a
\* document, so no later operation on the live document alters it; a step
\* leaves the history as it is, or pushes the text of the document it finds
\* on top (the oldest entry leaving a full history), or is an undo() that
\* pops the top; and the document undo() installs is the parse of the popped
\* text alone, built anew from it.
C33_SnapshotIsolation ==
    /\ [](\A i \in 1..Len(history) : history[i].t = "text")
    /\ [][(\/ history' = history
           \/ data # Null /\ ~UndoCalled /\ history' = PushedOnTop(history, data)
           \/ /\ UndoCalled
              /\ history # <<>>
              /\ history' = Front(history)
              /\ data' = JSONparse(history[Len(history)]))]_vars

\* an undo() has popped a snapshot of a history that had been full and had
\* evicted its oldest entry
C33_PoppedAfterEviction ==
    /\ last.op = "undo"
    /\ last.ret = Bool(TRUE)
    /\ dropped
    /\ Len(history) = maxHistory - 1

\* C34: no empty snapshot.  No history entry denotes the empty (null)
\* document and an undo() that returns true never leaves the store empty;
\* an undo() called right after set(null) has cleared a loaded document
\* returns true and restores that document.
C34_NoEmptySnapshot ==
    /\ [](\A i \in 1..Len(history) : JSONparse(history[i]) # Null)
    /\ [][((UndoCalled /\ last'.ret = Bool(TRUE)) => data' # Null)]_vars
    /\ [][((/\ last.op = "set"
            /\ last.args.value = Null
            /\ last.args.saveHistory
            /\ pre # Null
            /\ UndoCalled)
           => (last'.ret = Bool(TRUE) /\ data' = pre))]_vars

\* ------------------------------------------------------------------------
\* SpecDrain: a caller that fills the history and then only calls undo()
\* ------------------------------------------------------------------------

\* the caller loads and appends as in SpecHist until its first undo(); from
\* then on it calls nothing but undo(), and it keeps calling it
NextDrain ==
    \/ last.op # "undo" /\ HistLoad
    \/ last.op # "undo" /\ HistAppend
    \/ Undo

SpecDrain == Init /\ [][NextDrain]_vars /\ WF_vars(Undo)

\* C35: undo terminates.  The history never holds more than maxHistory
\* snapshots; an undo() returns true exactly when the history is not empty
\* and then leaves it one snapshot shorter, and returns false leaving it
\* empty otherwise; so a caller that only calls undo() is answered false
\* after at most maxHistory calls that returned true.
C35_UndoTerminates ==
    /\ [](Len(history) <= maxHistory)
    /\ [][(UndoCalled
           => (/\ (last'.ret = Bool(TRUE)) = (history # <<>>)
               /\ last'.ret \in {Bool(TRUE), Bool(FALSE)}
               /\ last'.ret = Bool(TRUE) => Len(history') = Len(history) - 1
               /\ last'.ret = Bool(FALSE) => history' = history))]_vars
    /\ (last.op = "undo") ~> (last.op = "undo" /\ last.ret = Bool(FALSE) /\ history = <<>>)

\* a full history that had evicted a snapshot was drained and the next
\* undo() returned false
C35_Drained ==
    /\ last.op = "undo"
    /\ last.ret = Bool(FALSE)
    /\ dropped
    /\ history = <<>>
    /\ data # Null

\* ------------------------------------------------------------------------
\* SpecListeners: callbacks registered more than once and unsubscribed
\* whether registered or not
\* ------------------------------------------------------------------------

\* registrations held at a time: one more than in SpecNotify, so that a
\* callback can be registered twice beside another one
MaxRegistrations == MaxListeners + 1

\* a callback is registered, possibly once more
Register == Len(listeners) < MaxRegistrations /\ \E l \in Listeners : Subscribe(l)

\* an unsubscribe function is called, possibly again
Unregister == TRUE /\ \E l \in Listeners : Unsubscribe(l)

NextListeners ==
    \/ Register
    \/ Unregister
    \/ SetStep
    \/ Undo

SpecListeners == Init /\ [][NextListeners]_vars

\* number of entries of the sequence xs that satisfy Test
Count(xs, Test(_)) == Len(SelectSeq(xs, Test))

\* C36: unsubscribe semantics.  Calling the function subscribe(l) returned
\* removes every registration of l and leaves the other listeners in their
\* order; when l is not registered the call changes nothing; it never
\* touches the document or the history and invokes nobody.  Every
\* notification invokes each registration once, in order: a callback
\* registered k times k times, an unsubscribed one not at all.
C36_Unsubscribe ==
    [][(/\ Calls("unsubscribe")
          => (/\ listeners' = SelectSeq(listeners, LAMBDA l : l # last'.args.listener)
              /\ Count(listeners, LAMBDA l : l = last'.args.listener) = 0
                   => listeners' = listeners
              /\ data' = data
              /\ history' = history
              /\ calls' = <<>>
              /\ last'.status = "returned")
        /\ Succeeded
          => (/\ Len(calls') = Len(listeners)
              /\ \A i \in 1..Len(calls') : calls'[i].listener = listeners[i]
              /\ \A l \in Listeners :
                    Count(calls', LAMBDA c : c.listener = l)
                      = Count(listeners, LAMBDA m : m = l)))]_vars

\* one notification invoked a callback registered twice two times, around
\* another listener
C36_TwiceInvoked ==
    /\ Len(calls) = 3
    /\ calls[1].listener = calls[3].listener
    /\ calls[1].listener # calls[2].listener
    /\ last.op \in {"set", "undo"}

\* ------------------------------------------------------------------------
\* SpecReentrant: listeners that subscribe and unsubscribe while they are
\* being notified
\* ------------------------------------------------------------------------

\* the callbacks of the session: once unsubscribes itself when it is called,
\* adder subscribes render, remover unsubscribes render, render only reads
ReactingListeners == {"once", "adder", "remover", "render"}

\* what a callback does to the store when it is called
Reaction(l) ==
    CASE l = "once" -> [act |-> "unsubscribe", listener |-> "once"]
      [] l = "adder" -> [act |-> "subscribe", listener |-> "render"]
      [] l = "remover" -> [act |-> "unsubscribe", listener |-> "render"]
      [] OTHER -> [act |-> "none", listener |-> ""]

\* a notification round in progress: iter is the array forEach walks, cur the
\* array this.listeners refers to, same tells whether they are one array,
\* calls the invocations made.  subscribe pushes onto the array
\* this.listeners refers to; the function it returned assigns a filtered copy
\* to this.listeners and leaves the old array alone.
React(st, l) ==
    LET r == Reaction(l)
    IN  CASE r.act = "subscribe" ->
                [st EXCEPT !.cur = Append(@, r.listener),
                           !.iter = IF st.same THEN Append(@, r.listener) ELSE @]
          [] r.act = "unsubscribe" ->
                [st EXCEPT !.cur = SelectSeq(@, LAMBDA m : m # r.listener),
                           !.same = FALSE]
          [] OTHER -> st

\* Array.prototype.forEach from index i: the indices below the length n the
\* array had when forEach was called are visited, elements pushed meanwhile
\* are not
RECURSIVE Deliver(_, _, _, _, _)
Deliver(st, i, n, d, h) ==
    IF i > n THEN st
    ELSE LET l == st.iter[i]
             called == [st EXCEPT !.calls = Append(@, [listener |-> l, data |-> d,
                                                       history |-> h])]
         IN  Deliver(React(called, l), i + 1, n, d, h)

\* a loop that reads this.listeners[i] and this.listeners.length anew at
\* every turn
RECURSIVE DeliverLive(_, _, _, _)
DeliverLive(st, i, d, h) ==
    IF i > Len(st.cur) THEN st
    ELSE LET l == st.cur[i]
             called == [st EXCEPT !.calls = Append(@, [listener |-> l, data |-> d,
                                                       history |-> h])]
         IN  DeliverLive(React(called, l), i + 1, d, h)

\* a notify that walks the live list
notifyRoundLive(s) ==
    DeliverLive([iter |-> s.listeners, cur |-> s.listeners, same |-> TRUE, calls |-> <<>>],
                1, s.data, s.history)

\* JsonStore.notify with callbacks that react
notifyRound(s) ==
    Deliver([iter |-> s.listeners, cur |-> s.listeners, same |-> TRUE, calls |-> <<>>],
            1, Len(s.listeners), s.data, s.history)

\* the completion r of a call with the round of its notify() played out
Reentered(r) ==
    IF r.notified
    THEN LET st == notifyRound(r.store)
         IN  [r EXCEPT !.calls = st.calls, !.store.listeners = st.cur]
    ELSE r

\* a callback is registered
ReactingSubscribe ==
    /\ Len(listeners) < MaxRegistrations
    /\ \E l \in ReactingListeners : Subscribe(l)

\* a document is loaded or cleared and the listeners are notified
ReactingSet ==
    /\ Budget
    /\ \E value \in SetValues, saveHistory \in BOOLEAN :
          Call("set", [NoArgs EXCEPT !.value = value, !.saveHistory = saveHistory],
               Reentered(set(Cur, value, saveHistory)), 1)

\* undo, the listeners notified when a snapshot was restored
ReactingUndo == TRUE /\ Call("undo", NoArgs, Reentered(undo(Cur)), 0)

NextReentrant ==
    \/ ReactingSubscribe
    \/ ReactingSet
    \/ ReactingUndo

SpecReentrant == Init /\ [][NextReentrant]_vars

\* the list cur after the callbacks ls have reacted one after the other
RECURSIVE AfterReactions(_, _)
AfterReactions(ls, cur) ==
    IF ls = <<>> THEN cur
    ELSE LET r == Reaction(ls[1])
             next == CASE r.act = "subscribe" -> Append(cur, r.listener)
                       [] r.act = "unsubscribe" -> SelectSeq(cur, LAMBDA m : m # r.listener)
                       [] OTHER -> cur
         IN  AfterReactions(Tail(ls), next)

\* C37: listener-list changes during a notification round.  A notification
\* invokes exactly the listeners that were registered when it started, once
\* per registration and in registration order, whatever they subscribe or
\* unsubscribe meanwhile; the list it leaves is the starting list with those
\* changes applied in order, and it is the list the next round invokes.
C37_RoundIsStable ==
    [][(Succeeded
        => (/\ Len(calls') = Len(listeners)
            /\ \A i \in 1..Len(calls') : calls'[i].listener = listeners[i]
            /\ listeners' = AfterReactions(listeners, listeners)))]_vars

\* a round invoked adder and once; afterwards render is registered and once
\* is not
C37_ChangedDuringRound ==
    /\ last.op = "set"
    /\ Len(calls) = 2
    /\ calls[1].listener = "adder"
    /\ calls[2].listener = "once"
    /\ listeners = <<"adder", "render">>

====
